---- MODULE Spec2Model ----
(***************************************************************************)
(* Model of the workout CSV parser and analyzer of src/workout-parser.js:  *)
(* WorkoutParser, WorkoutAnalyzer, MultiFormatWorkoutParser and            *)
(* EnhancedWorkoutAnalyzer.                                                *)
(*                                                                         *)
(* Representation of JavaScript values                                     *)
(*   string     a sequence of one-character strings, <<"a","b">>           *)
(*   number     Num(n) for the integer n; Dec(n) for a number that is no   *)
(*              integer, n being the number in tenths (one decimal digit   *)
(*              is kept), so Dec(805) is 80.5                              *)
(*   NaN        NaN                                                        *)
(*   undefined  Undefined                                                  *)
(*   Date       DateV(s): s is the time value in whole seconds (the        *)
(*              milliseconds are dropped);                                 *)
(*              InvalidDate is a Date whose time value is NaN              *)
(*   object     a function from keys (strings as above) to values; a key   *)
(*              outside its DOMAIN reads as Undefined                      *)
(*   array      a sequence                                                 *)
(***************************************************************************)
EXTENDS Integers, Sequences, FiniteSets, TLC

VARIABLES
    cls,             \* class of the parser object: "WorkoutParser" or "MultiFormatWorkoutParser"
    data,            \* this.data of the parser object
    sectionHeaders,  \* this.sectionHeaders of the parser object
    detectedFormat,  \* this.detectedFormat of the parser object ("null" before the first parse)
    input,           \* argument of the last call
    ret,             \* outcome of the last call: a returned value or a thrown error
    parsed,          \* outcome of the last parse call (the data an analyzer is built on);
                     \* in SpecScan the locals of the parseCSVLine call in progress
    op,              \* the last operation called
    calls,           \* number of parse calls made on the parser object
    given            \* the rows or tokens the input text was written from

vars == <<cls, data, sectionHeaders, detectedFormat, input, ret, parsed, op, calls, given>>

-----------------------------------------------------------------------------
(* JavaScript values *)

\* a local constant: Body applied to the value v, which is computed first
With(v, Body(_)) == CHOOSE r \in {Body(x) : x \in {v}} : TRUE

Num(n) == [t |-> "num", v |-> n]
Dec(n) == [t |-> "dec", v |-> n]
NaN == [t |-> "nan"]
Undefined == [t |-> "undef"]
Null == [t |-> "null"]
\* the ISO-8601 text of the instant s (Date.prototype.toISOString), kept as
\* the instant
Iso(s) == [t |-> "iso", s |-> s]
Str(s) == [t |-> "str", s |-> s]
DateV(s) == [t |-> "date", s |-> s]
InvalidDate == [t |-> "baddate"]
Arr(a) == [t |-> "arr", a |-> a]

\* a number other than NaN
IsNum(x) == x.t \in {"num", "dec"}

\* a number in tenths, and the number of a count of tenths
Tenths(x) == IF x.t = "num" THEN x.v * 10 ELSE x.v
FromTenths(n) == IF n % 10 = 0 THEN Num(n \div 10) ELSE Dec(n)
IsStr(x) == x.t = "str"

\* obj[key] of JavaScript: undefined when the key is absent
Get(obj, key) == IF key \in DOMAIN obj THEN obj[key] ELSE Undefined

\* obj[key] = value
Put(obj, key, value) == [k \in DOMAIN obj \cup {key} |-> IF k = key THEN value ELSE obj[k]]

\* { ...a, ...b }
Spread(a, b) == [k \in DOMAIN a \cup DOMAIN b |-> IF k \in DOMAIN b THEN b[k] ELSE a[k]]

EmptyObj == [k \in {} |-> Undefined]

\* ToBoolean
Truthy(x) ==
    CASE x.t = "num" -> x.v # 0
      [] x.t = "dec" -> TRUE
      [] x.t = "nan" -> FALSE
      [] x.t = "undef" -> FALSE
      [] x.t = "null" -> FALSE
      [] x.t = "str" -> x.s # <<>>
      [] OTHER -> TRUE

\* a || b
OrElse(a, b) == With(a, LAMBDA x : IF Truthy(x) THEN x ELSE b)

\* a > b on numbers: false when either side is NaN or undefined
Gt(a, b) ==
    /\ IsNum(a)
    /\ IsNum(b)
    /\ IF a.t = "num" /\ b.t = "num" THEN a.v > b.v ELSE Tenths(a) > Tenths(b)

\* a * b on numbers (NaN when either side is not a number); the product is
\* cut to one decimal digit
Mul(a, b) ==
    IF ~(IsNum(a) /\ IsNum(b)) THEN NaN
    ELSE IF a.t = "num" /\ b.t = "num" THEN Num(a.v * b.v)
    ELSE FromTenths((Tenths(a) * Tenths(b)) \div 10)

\* a + b on numbers
Add(a, b) ==
    IF ~(IsNum(a) /\ IsNum(b)) THEN NaN
    ELSE IF a.t = "num" /\ b.t = "num" THEN Num(a.v + b.v)
    ELSE FromTenths(Tenths(a) + Tenths(b))

-----------------------------------------------------------------------------
(* Strings *)

SetMin(S) == CHOOSE x \in S : \A y \in S : x <= y
SetMax(S) == CHOOSE x \in S : \A y \in S : x >= y

DigitChars == <<"0", "1", "2", "3", "4", "5", "6", "7", "8", "9">>
HexLetters == {"a", "b", "c", "d", "e", "f", "A", "B", "C", "D", "E", "F"}
UpperAlpha == <<"A", "B", "C", "D", "E", "F", "G", "H", "I", "J", "K", "L", "M",
                "N", "O", "P", "Q", "R", "S", "T", "U", "V", "W", "X", "Y", "Z">>
LowerAlpha == <<"a", "b", "c", "d", "e", "f", "g", "h", "i", "j", "k", "l", "m",
                "n", "o", "p", "q", "r", "s", "t", "u", "v", "w", "x", "y", "z">>

IsDigit(c) == \E i \in 1..10 : DigitChars[i] = c
DigitVal(c) == (CHOOSE i \in 1..10 : DigitChars[i] = c) - 1
IsSpace(c) == c \in {" ", "\t", "\r", "\n"}

ToLowerChar(c) ==
    IF \E i \in 1..26 : UpperAlpha[i] = c
    THEN LowerAlpha[CHOOSE i \in 1..26 : UpperAlpha[i] = c]
    ELSE c

\* String.prototype.toLowerCase
toLowerCase(s) == [i \in 1..Len(s) |-> ToLowerChar(s[i])]

\* String.prototype.trim
trim(s) ==
    LET keep == {i \in 1..Len(s) : ~IsSpace(s[i])}
    IN  IF keep = {} THEN <<>> ELSE SubSeq(s, SetMin(keep), SetMax(keep))

trimStart(s) ==
    LET keep == {i \in 1..Len(s) : ~IsSpace(s[i])}
    IN  IF keep = {} THEN <<>> ELSE SubSeq(s, SetMin(keep), Len(s))

\* String.prototype.includes
includes(s, sub) ==
    \E i \in 0..(Len(s) - Len(sub)) : SubSeq(s, i + 1, i + Len(sub)) = sub

\* String.prototype.startsWith
startsWith(s, prefix) ==
    Len(prefix) <= Len(s) /\ SubSeq(s, 1, Len(prefix)) = prefix

\* String.prototype.split with a one-character separator: the pieces
\* between consecutive occurrences of sep
split(s, sep) ==
    LET seps == {i \in 1..Len(s) : s[i] = sep}
        n == Cardinality(seps)
        pos(k) == IF k = 0 THEN 0
                  ELSE IF k = n + 1 THEN Len(s) + 1
                  ELSE CHOOSE p \in seps : Cardinality({r \in seps : r <= p}) = k
    IN  [k \in 1..(n + 1) |-> SubSeq(s, pos(k - 1) + 1, pos(k) - 1)]

\* Array.prototype.join with a one-character separator
RECURSIVE join(_, _)
join(parts, sep) ==
    IF parts = <<>> THEN <<>>
    ELSE IF Len(parts) = 1 THEN parts[1]
    ELSE LET half == Len(parts) \div 2
         IN  join(SubSeq(parts, 1, half), sep) \o <<sep>>
                 \o join(SubSeq(parts, half + 1, Len(parts)), sep)

\* index of the first character at or after i that is no decimal digit
DigitsEnd(s, i) ==
    SetMin({j \in i..(Len(s) + 1) : j = Len(s) + 1 \/ ~IsDigit(s[j])})

\* value of the decimal digits s[a..b]
RECURSIVE DecValue(_, _, _)
DecValue(s, a, b) ==
    IF b < a THEN 0 ELSE DecValue(s, a, b - 1) * 10 + DigitVal(s[b])

\* parseFloat of a string: leading white space, a sign, digits, a fraction.
\* Digits after the first decimal place are dropped; exponents and
\* "Infinity" do not occur in the inputs of this model.
parseFloatStr(str) ==
    With(trimStart(str), LAMBDA s :
    With(IF s # <<>> /\ s[1] \in {"-", "+"} THEN 2 ELSE 1, LAMBDA a :
    With(DigitsEnd(s, a), LAMBDA e :
    With(IF e <= Len(s) /\ s[e] = "." THEN DigitsEnd(s, e + 1) ELSE e, LAMBDA fe :
    With(IF fe > e + 1 THEN DigitVal(s[e + 1]) ELSE 0, LAMBDA tenth :
    With(DecValue(s, a, e - 1), LAMBDA whole :
        IF e = a /\ fe <= e + 1 THEN NaN
        ELSE IF tenth = 0 THEN Num(IF s[1] = "-" THEN 0 - whole ELSE whole)
        ELSE Dec(IF s[1] = "-" THEN 0 - (whole * 10 + tenth) ELSE whole * 10 + tenth)))))))

\* parseFloat of any value (the argument is converted to a string first)
parseFloat(x) ==
    CASE x.t = "str" -> parseFloatStr(x.s)
      [] x.t \in {"num", "dec"} -> x
      [] OTHER -> NaN


-----------------------------------------------------------------------------
(* Outcome of a call *)

NoCall == [kind |-> "none"]
Returned(v) == [kind |-> "return", value |-> v]
Threw(e) == [kind |-> "throw", error |-> e]

-----------------------------------------------------------------------------
(* WorkoutParser.parseSetLogs *)

\* one element of the map() callback: setStr is the token, index its
\* 0-based position
SetOfToken(setStr, index) ==
    With(split(trim(setStr), "x"), LAMBDA parts :
    With([i \in 1..Len(parts) |-> OrElse(parseFloatStr(parts[i]), Num(0))], LAMBDA nums :
        LET weight == nums[1]
            reps == IF Len(nums) >= 2 THEN nums[2] ELSE Undefined
        IN  [setNumber |-> Num(index + 1),
             weight |-> weight,
             reps |-> reps,
             volume |-> Mul(weight, reps)]))

\* a filter that keeps a set only when both values are positive
KeepSetBoth(set) == Gt(set.weight, Num(0)) /\ Gt(set.reps, Num(0))

KeepSet(set) == Gt(set.weight, Num(0)) \/ Gt(set.reps, Num(0))

parseSetLogs(logsString) ==
    IF logsString = <<>> \/ logsString = <<"0">> THEN <<>>
    ELSE LET toks == split(logsString, ",")
             mapped == [i \in 1..Len(toks) |-> SetOfToken(toks[i], i - 1)]
         IN  SelectSeq(mapped, KeepSet)

-----------------------------------------------------------------------------
(* The parser object *)

\* WorkoutParser.constructor: this.data
NewData ==
    [settings |-> EmptyObj,
     routines |-> <<>>,
     workoutDays |-> <<>>,
     exercises |-> <<>>,
     workoutSessions |-> <<>>,
     exerciseLogs |-> <<>>,
     notes |-> <<>>]

\* a newly constructed parser object of class c, no method called yet
Constructed(c) ==
    /\ cls = c
    /\ data = NewData
    /\ sectionHeaders = EmptyObj
    /\ detectedFormat = "null"
    /\ calls = 0
    /\ op = "none"
    /\ ret = NoCall
    /\ parsed = NoCall

SeqsUpTo(S, n) == UNION {[1..k -> S] : k \in 0..n}

-----------------------------------------------------------------------------
(* Specification SpecSetLogs: parseSetLogs applied to a logs string written *)
(* from up to MaxTokens tokens.  Each token of the palette carries the     *)
(* weight w and the reps r it is written from (in tenths) and its delimiter.*)

MaxTokens == 3

TokenPalette ==
    <<[text |-> <<"2", "0", "x", "1", "0">>, w |-> 200, r |-> 100, delim |-> "x"],
       [text |-> <<"0", "x", "0">>, w |-> 0, r |-> 0, delim |-> "x"],
       [text |-> <<"0", "x", "1", "2">>, w |-> 0, r |-> 120, delim |-> "x"],
       [text |-> <<"1", "0", "0", "x", "0">>, w |-> 1000, r |-> 0, delim |-> "x"],
       [text |-> <<" ", "7", "0", " ", "x", " ", "5">>, w |-> 700, r |-> 50, delim |-> "x"],
       [text |-> <<"2", ".", "5", "x", "8">>, w |-> 25, r |-> 80, delim |-> "x"],
       [text |-> <<"5", "X", "3">>, w |-> 50, r |-> 30, delim |-> "X"],
       [text |-> <<"2", "0", "x", "2", ".", "5">>, w |-> 200, r |-> 25, delim |-> "x"]>>

TokenTexts(toks) == [i \in 1..Len(toks) |-> toks[i].text]

InitSetLogs ==
    /\ Constructed("WorkoutParser")
    /\ \/ /\ given \in SeqsUpTo({TokenPalette[i] : i \in 1..Len(TokenPalette)}, MaxTokens)
          /\ input = join(TokenTexts(given), ",")
       \/ /\ given = <<>>
          /\ input = <<"0">>

DecodeSetLogs ==
    /\ op = "none"
    /\ op' = "parseSetLogs"
    /\ ret' = Returned(parseSetLogs(input))
    /\ UNCHANGED <<cls, data, sectionHeaders, detectedFormat, input, parsed, calls, given>>

NextSetLogs == DecodeSetLogs

SpecSetLogs == InitSetLogs /\ [][NextSetLogs]_vars

\* the tokens are written with the lower-case delimiter, as in "w x r"
LowerTokens(toks) == \A i \in 1..Len(toks) : toks[i].delim = "x"

NonZeroToken(tok) == tok.w > 0 \/ tok.r > 0

\* C6: the set-log decoder keeps exactly the non-zero tokens.  For a logs
\* string of comma-separated "w x r" tokens the result has one Set per token
\* with weight > 0 or reps > 0, carrying that token's weight and reps, in the
\* tokens' order; a token with both sides 0 yields no Set; the empty string
\* and the literal "0" yield the empty sequence.
C6_KeepsNonZeroTokens ==
    (op = "parseSetLogs" /\ LowerTokens(given)) =>
        LET kept == SelectSeq(given, NonZeroToken)
            sets == ret.value
        IN  /\ ret.kind = "return"
            /\ Len(sets) = Len(kept)
            /\ \A i \in 1..Len(kept) :
                  /\ sets[i].weight = FromTenths(kept[i].w)
                  /\ sets[i].reps = FromTenths(kept[i].r)
            /\ (input = <<>> \/ input = <<"0">>) => sets = <<>>

\* a three-token string with a zero token between two kept tokens, one of
\* them with weight 0, has been decoded
C6_Witness ==
    /\ op = "parseSetLogs"
    /\ LowerTokens(given)
    /\ Len(given) = 3
    /\ NonZeroToken(given[1]) /\ given[1].w = 0
    /\ ~NonZeroToken(given[2])
    /\ NonZeroToken(given[3])
    /\ Len(ret.value) = 2

-----------------------------------------------------------------------------
(* MultiFormatWorkoutParser.detectFormat *)

\* 'Workout #', 'Exercise Name', 'Set Order', 'Weight (kg)', 'Reps',
\* 'Duration (sec)'
strongIndicators ==
    {<<"W", "o", "r", "k", "o", "u", "t", " ", "#">>,
     <<"E", "x", "e", "r", "c", "i", "s", "e", " ", "N", "a", "m", "e">>,
     <<"S", "e", "t", " ", "O", "r", "d", "e", "r">>,
     <<"W", "e", "i", "g", "h", "t", " ", "(", "k", "g", ")">>,
     <<"R", "e", "p", "s">>,
     <<"D", "u", "r", "a", "t", "i", "o", "n", " ", "(", "s", "e", "c", ")">>}

\* lines.slice(0, n)
FirstLines(lines, n) == SubSeq(lines, 1, IF Len(lines) < n THEN Len(lines) ELSE n)

hasStrongHeaders(lines) ==
    \E i \in 1..Len(lines) : \E indicator \in strongIndicators :
        includes(lines[i], indicator)

hasSectionHeaders(lines) ==
    \E i \in 1..Len(lines) :
        \/ includes(lines[i], <<"#", "#", "#", " ">>)
        \/ includes(lines[i], <<"#", "#", "#", "#", "#", "#">>)

\* a detector that looks at the first 6 lines
detectFormatFirst6(csvContent) ==
    LET lines == FirstLines(split(csvContent, "\n"), 6)
    IN  IF hasStrongHeaders(lines) THEN "strong" ELSE "multi-section"

detectFormat(csvContent) ==
    LET lines == FirstLines(split(csvContent, "\n"), 5)
    IN  IF hasStrongHeaders(lines) THEN "strong" ELSE "multi-section"

-----------------------------------------------------------------------------
(* Specification SpecDetect: detectFormat applied to a text of up to       *)
(* MaxDetectLines lines.  Each line of the palette says whether an         *)
(* indicator word was written into it and whether it is a section marker.  *)

MaxDetectLines == 6

DetectPalette ==
    {[text |-> <<"x", ",", "R", "e", "p", "s", ",", "y">>,
      indicator |-> TRUE, marker |-> FALSE],
     [text |-> <<"x", ",", "r", "e", "p", "s", ",", "y">>,
      indicator |-> FALSE, marker |-> FALSE],
     [text |-> <<"#", "#", "#", " ", "S", "e", "t", " ", "O", "r", "d", "e", "r", " ", "#", "#", "#">>,
      indicator |-> TRUE, marker |-> TRUE],
     [text |-> <<"#", "#", "#", " ", "N", "O", "T", "E", "S", " ", "#", "#", "#">>,
      indicator |-> FALSE, marker |-> TRUE]}

LineTexts(ls) == [i \in 1..Len(ls) |-> ls[i].text]

InitDetect ==
    /\ Constructed("MultiFormatWorkoutParser")
    /\ given \in SeqsUpTo(DetectPalette, MaxDetectLines)
    /\ input = join(LineTexts(given), "\n")

DetectFormat ==
    /\ op = "none"
    /\ op' = "detectFormat"
    /\ ret' = Returned(detectFormat(input))
    /\ UNCHANGED <<cls, data, sectionHeaders, detectedFormat, input, parsed, calls, given>>

NextDetect == DetectFormat

SpecDetect == InitDetect /\ [][NextDetect]_vars

\* an indicator word was written into one of the first 5 lines
IndicatorInFirst5(ls) ==
    \E i \in 1..Len(ls) : i <= 5 /\ ls[i].indicator

\* C3: detectFormat returns the single-table tag ('strong') if and only if
\* an indicator word occurs, with its exact casing, in one of the first 5
\* lines, and multi-section otherwise; lines after the fifth and section
\* markers do not change the result, and a text with both an indicator word
\* and a section marker in its first 5 lines is single-table.
C3_DetectByIndicatorInFirst5 ==
    op = "detectFormat" =>
        /\ ret.kind = "return"
        /\ ret.value = (IF IndicatorInFirst5(given) THEN "strong" ELSE "multi-section")

\* a six-line text whose only indicator word is on line 6, after a section
\* marker in the first 5 lines, has been classified
C3_Witness ==
    /\ op = "detectFormat"
    /\ Len(given) = 6
    /\ given[6].indicator
    /\ ~IndicatorInFirst5(given)
    /\ \E i \in 1..5 : given[i].marker
    /\ ret.value = "multi-section"

-----------------------------------------------------------------------------
(* Property names: the keys the code reads and writes *)

K ==
    [difficulty |-> <<"d", "i", "f", "f", "i", "c", "u", "l", "t", "y">>,
     focus |-> <<"f", "o", "c", "u", "s">>,
     day |-> <<"d", "a", "y">>,
     dayIndex |-> <<"d", "a", "y", "I", "n", "d", "e", "x">>,
     exercisename |-> <<"e", "x", "e", "r", "c", "i", "s", "e", "n", "a", "m", "e">>,
     logs |-> <<"l", "o", "g", "s">>,
     sets |-> <<"s", "e", "t", "s">>,
     totalSets |-> <<"t", "o", "t", "a", "l", "S", "e", "t", "s">>,
     totalVolume |-> <<"t", "o", "t", "a", "l", "V", "o", "l", "u", "m", "e">>,
     total_time |-> <<"t", "o", "t", "a", "l", "_", "t", "i", "m", "e">>,
     workout_time |-> <<"w", "o", "r", "k", "o", "u", "t", "_", "t", "i", "m", "e">>,
     efficiency |-> <<"e", "f", "f", "i", "c", "i", "e", "n", "c", "y">>,
     total_weight |-> <<"t", "o", "t", "a", "l", "_", "w", "e", "i", "g", "h", "t">>,
     total_exercise |-> <<"t", "o", "t", "a", "l", "_", "e", "x", "e", "r", "c", "i", "s", "e">>,
     avgWeightPerExercise |->
         <<"a", "v", "g", "W", "e", "i", "g", "h", "t", "P", "e", "r", "E", "x", "e", "r", "c", "i", "s", "e">>,
     TIMESTAMP |-> <<"T", "I", "M", "E", "S", "T", "A", "M", "P">>,
     starttime |-> <<"s", "t", "a", "r", "t", "t", "i", "m", "e">>,
     _id |-> <<"_", "i", "d">>,
     workout_name |-> <<"w", "o", "r", "k", "o", "u", "t", "_", "n", "a", "m", "e">>,
     workout_id |-> <<"w", "o", "r", "k", "o", "u", "t", "_", "i", "d">>,
     maxWeight |-> <<"m", "a", "x", "W", "e", "i", "g", "h", "t">>,
     format |-> <<"f", "o", "r", "m", "a", "t">>,
     parsedAt |-> <<"p", "a", "r", "s", "e", "d", "A", "t">>,
     WorkoutNo |-> <<"W", "o", "r", "k", "o", "u", "t", " ", "#">>,
     Date |-> <<"D", "a", "t", "e">>,
     WorkoutName |-> <<"W", "o", "r", "k", "o", "u", "t", " ", "N", "a", "m", "e">>,
     DurationSec |-> <<"D", "u", "r", "a", "t", "i", "o", "n", " ", "(", "s", "e", "c", ")">>,
     ExerciseName |-> <<"E", "x", "e", "r", "c", "i", "s", "e", " ", "N", "a", "m", "e">>,
     SetOrder |-> <<"S", "e", "t", " ", "O", "r", "d", "e", "r">>,
     WeightKg |-> <<"W", "e", "i", "g", "h", "t", " ", "(", "k", "g", ")">>,
     Reps |-> <<"R", "e", "p", "s">>,
     DistanceMeters |->
         <<"D", "i", "s", "t", "a", "n", "c", "e", " ", "(", "m", "e", "t", "e", "r", "s", ")">>,
     Seconds |-> <<"S", "e", "c", "o", "n", "d", "s">>,
     RPE |-> <<"R", "P", "E">>,
     dayaweek |-> <<"d", "a", "y", "a", "w", "e", "e", "k">>,
     logTime |-> <<"l", "o", "g", "T", "i", "m", "e">>,
     Notes |-> <<"N", "o", "t", "e", "s">>]

-----------------------------------------------------------------------------
(* parseCSVLine *)

QUOTE == "\""

\* a pass that takes every separator for the end of a field, quoted or not
ScanStepOnEverySeparator(line, separator, i, st) ==
    IF st.i # i THEN st
    ELSE IF line[i] = separator
    THEN [st EXCEPT !.result = Append(@, st.current), !.current = <<>>, !.i = i + 1]
    ELSE IF line[i] = QUOTE
    THEN IF st.inQuotes /\ i + 1 <= Len(line) /\ line[i + 1] = QUOTE
         THEN [st EXCEPT !.current = Append(@, QUOTE), !.i = i + 2]
         ELSE [st EXCEPT !.inQuotes = ~@, !.i = i + 1]
    ELSE [st EXCEPT !.current = Append(@, line[i]), !.i = i + 1]

\* a pass that toggles the quote state without stepping over the quote
ScanStepStaysOnQuote(line, separator, i, st) ==
    IF st.i # i THEN st
    ELSE IF line[i] = QUOTE
    THEN IF st.inQuotes /\ i + 1 <= Len(line) /\ line[i + 1] = QUOTE
         THEN [st EXCEPT !.current = Append(@, QUOTE), !.i = i + 2]
         ELSE [st EXCEPT !.inQuotes = ~@]
    ELSE IF line[i] = separator /\ ~st.inQuotes
    THEN [st EXCEPT !.result = Append(@, st.current), !.current = <<>>, !.i = i + 1]
    ELSE [st EXCEPT !.current = Append(@, line[i]), !.i = i + 1]

\* One pass of the body of the while loop shared by both parseCSVLine
\* methods, on position i of the line.  The state st holds the locals i,
\* inQuotes, current and result (the values of current that were pushed).
\* The loop does not stand on a position it has stepped over (the second
\* quote of an escaped quote): such a position leaves the state as it is.
ScanStep(line, separator, i, st) ==
    IF st.i # i THEN st
    ELSE IF line[i] = QUOTE
    THEN IF st.inQuotes /\ i + 1 <= Len(line) /\ line[i + 1] = QUOTE
         THEN [st EXCEPT !.current = Append(@, QUOTE), !.i = i + 2]
         ELSE [st EXCEPT !.inQuotes = ~@, !.i = i + 1]
    ELSE IF line[i] = separator /\ ~st.inQuotes
    THEN [st EXCEPT !.result = Append(@, st.current), !.current = <<>>, !.i = i + 1]
    ELSE [st EXCEPT !.current = Append(@, line[i]), !.i = i + 1]

\* the passes of the while loop on the positions from..to, begun in the
\* state st: those of the first half, then those of the second half
RECURSIVE ScanLoop(_, _, _, _, _)
ScanLoop(line, separator, from, to, st) ==
    IF from > to THEN st
    ELSE IF from = to THEN ScanStep(line, separator, from, st)
    ELSE With(ScanLoop(line, separator, from, (from + to) \div 2, st), LAMBDA half :
             ScanLoop(line, separator, (from + to) \div 2 + 1, to, half))

\* the values of current at the pushes of the loop, the one after the loop
\* included
ScanFields(line, separator) ==
    With(ScanLoop(line, separator, 1, Len(line),
                  [i |-> 1, inQuotes |-> FALSE, current |-> <<>>, result |-> <<>>]),
         LAMBDA st : Append(st.result, st.current))

\* WorkoutParser.parseCSVLine: result.push(current.trim())
WorkoutParser_parseCSVLine(line) ==
    With(ScanFields(line, ","), LAMBDA currents :
        [k \in 1..Len(currents) |-> trim(currents[k])])

\* current.replace(/^"|"$/g, ''): a quote at the start and a quote at the
\* end are removed
StripQuotes(current) ==
    LET a == IF current # <<>> /\ current[1] = QUOTE THEN Tail(current) ELSE current
    IN  IF a # <<>> /\ a[Len(a)] = QUOTE THEN SubSeq(a, 1, Len(a) - 1) ELSE a

\* MultiFormatWorkoutParser.parseCSVLine:
\* result.push(current.replace(/^"|"$/g, '').trim())
MultiFormat_parseCSVLine(line, separator) ==
    With(ScanFields(line, separator), LAMBDA currents :
        [k \in 1..Len(currents) |-> trim(StripQuotes(currents[k]))])

\* this.parseCSVLine(line) called on an object of class c
this_parseCSVLine(c, line) ==
    IF c = "MultiFormatWorkoutParser" THEN MultiFormat_parseCSVLine(line, ",")
    ELSE WorkoutParser_parseCSVLine(line)

-----------------------------------------------------------------------------
(* WorkoutParser.isHeaderLine, isNumeric, createRowObject *)

headerIndicators ==
    {<<"r", "o", "w", "_", "i", "d">>,
     <<"U", "S", "E", "R", "I", "D">>,
     <<"T", "I", "M", "E", "S", "T", "A", "M", "P">>,
     <<"_", "i", "d">>,
     <<"n", "a", "m", "e">>,
     <<"e", "x", "e", "r", "c", "i", "s", "e", "_", "i", "d">>,
     <<"e", "x", "e", "r", "c", "i", "s", "e", "n", "a", "m", "e">>,
     <<"s", "e", "t", "c", "o", "u", "n", "t">>,
     <<"l", "o", "g", "s">>,
     <<"t", "o", "t", "a", "l", "_", "t", "i", "m", "e">>,
     <<"w", "o", "r", "k", "o", "u", "t", "_", "t", "i", "m", "e">>,
     <<"m", "y", "n", "o", "t", "e">>,
     <<"t", "i", "t", "l", "e">>}

isHeaderLine(fields) ==
    \E i \in 1..Len(fields) :
        \/ fields[i] \in headerIndicators
        \/ includes(toLowerCase(fields[i]), <<"t", "i", "m", "e">>)
        \/ includes(toLowerCase(fields[i]), <<"i", "d">>)

\* whether Number(str) is a number: the trimmed text is empty (0), a decimal
\* literal with an optional sign, or a hexadecimal literal 0x...  Exponents,
\* "Infinity" and binary or octal literals do not occur in the inputs.
NumberOfStringIsNumber(str) ==
    With(trim(str), LAMBDA s :
    With(IF s # <<>> /\ s[1] \in {"-", "+"} THEN 2 ELSE 1, LAMBDA a :
    With(DigitsEnd(s, a), LAMBDA e :
    With(IF e <= Len(s) /\ s[e] = "." THEN DigitsEnd(s, e + 1) ELSE e, LAMBDA fe :
        LET decimal == fe = Len(s) + 1 /\ (e > a \/ fe > e + 1)
            hex == /\ Len(s) >= 3
                   /\ s[1] = "0"
                   /\ s[2] \in {"x", "X"}
                   /\ \A i \in 3..Len(s) : IsDigit(s[i]) \/ s[i] \in HexLetters
        IN  s = <<>> \/ decimal \/ hex))))

\* isNumeric of a field (a string)
isNumeric(str) ==
    /\ NumberOfStringIsNumber(str)
    /\ parseFloatStr(str) # NaN
    /\ trim(str) # <<>>

\* Date.parse of a string: "YYYY-MM-DD" and "YYYY-MM-DD hh:mm:ss" (or with
\* "T"), read as UTC; any other text has no date.  The inputs of this model
\* that are not of these two forms hold no digit.
DaysFromCivil(y, m, d) ==
    LET yy == IF m <= 2 THEN y - 1 ELSE y
        era == yy \div 400
        yoe == yy - era * 400
        mp == IF m > 2 THEN m - 3 ELSE m + 9
        doy == (153 * mp + 2) \div 5 + d - 1
        doe == yoe * 365 + yoe \div 4 - yoe \div 100 + doy
    IN  era * 146097 + doe - 719468

AllDigits(s, idx) == \A i \in idx : IsDigit(s[i])

DateParse(s) ==
    LET dateOk == /\ Len(s) \in {10, 19}
                  /\ AllDigits(s, {1, 2, 3, 4, 6, 7, 9, 10})
                  /\ s[5] = "-"
                  /\ s[8] = "-"
        timeOk == Len(s) = 19 =>
                      /\ s[11] \in {" ", "T"}
                      /\ AllDigits(s, {12, 13, 15, 16, 18, 19})
                      /\ s[14] = ":"
                      /\ s[17] = ":"
    IN  IF ~(dateOk /\ timeOk) THEN InvalidDate
        ELSE LET y == DecValue(s, 1, 4)
                 m == DecValue(s, 6, 7)
                 d == DecValue(s, 9, 10)
                 hh == IF Len(s) = 19 THEN DecValue(s, 12, 13) ELSE 0
                 mm == IF Len(s) = 19 THEN DecValue(s, 15, 16) ELSE 0
                 ss == IF Len(s) = 19 THEN DecValue(s, 18, 19) ELSE 0
             IN  IF m \in 1..12 /\ d \in 1..31 /\ hh < 24 /\ mm < 60 /\ ss < 60
                 THEN DateV(DaysFromCivil(y, m, d) * 86400 + hh * 3600 + mm * 60 + ss)
                 ELSE InvalidDate

\* new Date(value)
NewDate(x) ==
    CASE x.t = "str" -> DateParse(x.s)
      [] x.t = "num" -> DateV(x.v \div 1000)
      [] x.t = "dec" -> DateV(x.v \div 10000)
      [] x.t = "date" -> x
      [] x.t = "iso" -> DateV(x.s)
      [] OTHER -> InvalidDate

\* the value createRowObject stores for one field under one header
FieldValue(header, field) ==
    With(IF isNumeric(field) THEN parseFloatStr(field) ELSE Str(field), LAMBDA value :
        IF /\ includes(toLowerCase(header), <<"t", "i", "m", "e">>)
           /\ IsStr(value)
           /\ includes(value.s, <<"-">>)
        THEN NewDate(value)
        ELSE value)

\* WorkoutParser.createRowObject: the for loop assigns obj[headers[i]] for
\* i below both lengths in turn, so a header that occurs twice keeps the
\* value of its last occurrence
createRowObject(headers, fields) ==
    LET n == IF Len(headers) < Len(fields) THEN Len(headers) ELSE Len(fields)
    IN  [header \in {headers[i] : i \in 1..n} |->
            FieldValue(header, fields[SetMax({i \in 1..n : headers[i] = header})])]

-----------------------------------------------------------------------------
(* WorkoutParser: parseExerciseData, parseWorkoutSession, parseExerciseLog, *)
(* addToSection                                                            *)

\* a reduce that adds the weights alone
RECURSIVE SumSetWeights(_)
SumSetWeights(sets) ==
    IF sets = <<>> THEN Num(0)
    ELSE Add(SumSetWeights(SubSeq(sets, 1, Len(sets) - 1)), sets[Len(sets)].weight)

\* sets.reduce((sum, set) => sum + (set.weight * set.reps), 0)
RECURSIVE SumWeightReps(_)
SumWeightReps(sets) ==
    IF sets = <<>> THEN Num(0)
    ELSE Add(SumWeightReps(SubSeq(sets, 1, Len(sets) - 1)),
             Mul(sets[Len(sets)].weight, sets[Len(sets)].reps))

parseExerciseData(rowData) ==
    LET logs == Get(rowData, K.logs)
    IN  IF Truthy(logs) /\ IsStr(logs)
        THEN With(parseSetLogs(logs.s), LAMBDA sets :
                 Put(Put(Put(rowData, K.sets, Arr(sets)),
                         K.totalSets, Num(Len(sets))),
                     K.totalVolume, SumWeightReps(sets)))
        ELSE rowData

\* the decimal digits of a natural number
RECURSIVE NatChars(_)
NatChars(n) ==
    IF n < 10 THEN <<DigitChars[n + 1]>>
    ELSE Append(NatChars(n \div 10), DigitChars[(n % 10) + 1])

\* ToNumber of a stored field value
ToNumber(x) ==
    CASE x.t \in {"num", "dec"} -> x
      [] x.t = "str" -> IF trim(x.s) = <<>> THEN Num(0) ELSE NaN
      [] x.t = "date" -> Num(x.s * 1000)
      [] OTHER -> NaN

\* (a / b * scale).toFixed(1): the quotient rounded to one decimal digit,
\* "NaN" when an operand is no number
QuotientToFixed1(a, b, scale) ==
    With(ToNumber(a), LAMBDA x :
    With(ToNumber(b), LAMBDA y :
        IF ~(IsNum(x) /\ IsNum(y)) \/ Tenths(y) = 0 THEN <<"N", "a", "N">>
        ELSE LET n == Tenths(x) * scale * 10
                 d == Tenths(y)
                 neg == (n < 0) # (d < 0)
                 an == IF n < 0 THEN 0 - n ELSE n
                 ad == IF d < 0 THEN 0 - d ELSE d
             IN  With((2 * an + ad) \div (2 * ad), LAMBDA r :
                     (IF neg /\ r # 0 THEN <<"-">> ELSE <<>>)
                         \o NatChars(r \div 10) \o <<".">> \o NatChars(r % 10))))

parseWorkoutSession(rowData) ==
    LET total_time == Get(rowData, K.total_time)
        workout_time == Get(rowData, K.workout_time)
        total_weight == Get(rowData, K.total_weight)
        total_exercise == Get(rowData, K.total_exercise)
    IN  With(IF Truthy(total_time) /\ Truthy(workout_time)
             THEN Put(rowData, K.efficiency,
                      Str(QuotientToFixed1(workout_time, total_time, 100) \o <<"%">>))
             ELSE rowData,
             LAMBDA s1 :
                 IF Truthy(total_weight) /\ Truthy(total_exercise)
                 THEN Put(s1, K.avgWeightPerExercise,
                          Str(QuotientToFixed1(total_weight, total_exercise, 1)))
                 ELSE s1)

parseExerciseLog(rowData) ==
    LET logs == Get(rowData, K.logs)
    IN  IF Truthy(logs) /\ IsStr(logs)
        THEN Put(rowData, K.sets, Arr(parseSetLogs(logs.s)))
        ELSE rowData

\* a dispatch by section marker alone: every row of the ROUTINES section is
\* stored as a routine
addToSectionByMarker(d, section, rowData) ==
    CASE section = "settings" -> [d EXCEPT !.settings = Spread(d.settings, rowData)]
      [] section = "routines" -> [d EXCEPT !.routines = Append(@, rowData)]
      [] section = "workoutSessions" ->
             [d EXCEPT !.workoutSessions = Append(@, parseWorkoutSession(rowData))]
      [] section = "notes" -> [d EXCEPT !.notes = Append(@, rowData)]
      [] OTHER -> d

\* this.data after addToSection(section, rowData) on this.data = d
\* the day fields looked at before the difficulty and focus fields
addToSectionDayFirst(d, section, rowData) ==
    CASE section = "settings" ->
             [d EXCEPT !.settings = Spread(d.settings, rowData)]
      [] section = "routines" ->
             IF Get(rowData, K.day) # Undefined \/ Get(rowData, K.dayIndex) # Undefined
             THEN [d EXCEPT !.workoutDays = Append(@, rowData)]
             ELSE IF Get(rowData, K.difficulty) # Undefined \/ Get(rowData, K.focus) # Undefined
             THEN [d EXCEPT !.routines = Append(@, rowData)]
             ELSE IF Get(rowData, K.exercisename) # Undefined
             THEN [d EXCEPT !.exercises = Append(@, parseExerciseData(rowData))]
             ELSE d
      [] section = "workoutSessions" ->
             [d EXCEPT !.workoutSessions = Append(@, parseWorkoutSession(rowData))]
      [] section = "notes" ->
             [d EXCEPT !.notes = Append(@, rowData)]
      [] OTHER ->
             IF Truthy(Get(rowData, K.exercisename)) \/ Truthy(Get(rowData, K.logs))
             THEN [d EXCEPT !.exerciseLogs = Append(@, parseExerciseLog(rowData))]
             ELSE d

addToSection(d, section, rowData) ==
    CASE section = "settings" ->
             [d EXCEPT !.settings = Spread(d.settings, rowData)]
      [] section = "routines" ->
             IF Get(rowData, K.difficulty) # Undefined \/ Get(rowData, K.focus) # Undefined
             THEN [d EXCEPT !.routines = Append(@, rowData)]
             ELSE IF Get(rowData, K.day) # Undefined \/ Get(rowData, K.dayIndex) # Undefined
             THEN [d EXCEPT !.workoutDays = Append(@, rowData)]
             ELSE IF Get(rowData, K.exercisename) # Undefined
             THEN [d EXCEPT !.exercises = Append(@, parseExerciseData(rowData))]
             ELSE d
      [] section = "workoutSessions" ->
             [d EXCEPT !.workoutSessions = Append(@, parseWorkoutSession(rowData))]
      [] section = "notes" ->
             [d EXCEPT !.notes = Append(@, rowData)]
      [] OTHER ->
             IF Truthy(Get(rowData, K.exercisename)) \/ Truthy(Get(rowData, K.logs))
             THEN [d EXCEPT !.exerciseLogs = Append(@, parseExerciseLog(rowData))]
             ELSE d

-----------------------------------------------------------------------------
(* WorkoutParser.getSectionFromHeader, WorkoutParser.parse *)

\* a match of the keywords in the casing they are written in
getSectionCaseSensitive(headerLine) ==
    IF includes(headerLine, <<"s", "e", "t", "t", "i", "n", "g">>) THEN "settings"
    ELSE IF includes(headerLine, <<"r", "o", "u", "t", "i", "n", "e">>) THEN "routines"
    ELSE IF includes(headerLine, <<"w", "o", "r", "k", "o", "u", "t", " ",
                                   "s", "e", "s", "s", "i", "o", "n">>)
    THEN "workoutSessions"
    ELSE IF includes(headerLine, <<"n", "o", "t", "e", "s">>) THEN "notes"
    ELSE "unknown"

getSectionFromHeader(headerLine) ==
    LET header == toLowerCase(headerLine)
    IN  IF includes(header, <<"s", "e", "t", "t", "i", "n", "g">>) THEN "settings"
        ELSE IF includes(header, <<"r", "o", "u", "t", "i", "n", "e">>) THEN "routines"
        ELSE IF includes(header, <<"w", "o", "r", "k", "o", "u", "t", " ",
                                   "s", "e", "s", "s", "i", "o", "n">>)
        THEN "workoutSessions"
        ELSE IF includes(header, <<"n", "o", "t", "e", "s">>) THEN "notes"
        ELSE "unknown"

\* One iteration of the loop of parse, on the line rawLine.  The state st of
\* the loop holds the locals currentSection ("null" before the first section
\* marker) and headers, and the fields this.data and this.sectionHeaders.
ParseLine(c, rawLine, st) ==
    With(trim(rawLine), LAMBDA line :
        IF line = <<>> THEN st
        ELSE IF startsWith(line, <<"#", "#", "#", " ">>)
        THEN [st EXCEPT !.currentSection = getSectionFromHeader(line)]
        ELSE IF startsWith(line, <<"#", "#", "#", "#", "#", "#">>) THEN st
        ELSE IF st.currentSection = "null" THEN st
        ELSE With(this_parseCSVLine(c, line), LAMBDA fields :
                 IF isHeaderLine(fields)
                 THEN [st EXCEPT !.headers = fields,
                                 !.sectionHeaders = Put(@, st.currentSection, fields)]
                 ELSE IF Len(st.headers) > 0 /\ Len(fields) > 0
                 THEN [st EXCEPT !.data = addToSection(@, st.currentSection,
                                                       createRowObject(st.headers, fields))]
                 ELSE st))

\* the iterations from..to of the for loop of parse, begun in the state st:
\* those of the first half, then those of the second half
RECURSIVE ParseLoop(_, _, _, _, _)
ParseLoop(c, lines, from, to, st) ==
    IF from > to THEN st
    ELSE IF from = to THEN ParseLine(c, lines[from], st)
    ELSE With(ParseLoop(c, lines, from, (from + to) \div 2, st), LAMBDA half :
             ParseLoop(c, lines, (from + to) \div 2 + 1, to, half))

\* WorkoutParser.parse on an object of class c whose this.data is d and
\* this.sectionHeaders is sh: the final state of the loop
WorkoutParser_parse(c, d, sh, csvContent) ==
    ParseLoop(c, split(csvContent, "\n"), 1, Len(split(csvContent, "\n")),
              [currentSection |-> "null", headers |-> <<>>, data |-> d, sectionHeaders |-> sh])

-----------------------------------------------------------------------------
(* MultiFormatWorkoutParser.parseStrongFormat and transformStrongData *)

HexDigitVal(c) ==
    IF IsDigit(c) THEN DigitVal(c)
    ELSE 9 + (CHOOSE i \in 1..6 : c \in {LowerAlpha[i], UpperAlpha[i]})

HexEnd(s, i) ==
    SetMin({j \in i..(Len(s) + 1) :
               j = Len(s) + 1 \/ ~(IsDigit(s[j]) \/ s[j] \in HexLetters)})

RECURSIVE HexValue(_, _, _)
HexValue(s, a, b) ==
    IF b < a THEN 0 ELSE HexValue(s, a, b - 1) * 16 + HexDigitVal(s[b])

\* parseInt of a string: leading white space, a sign, then hexadecimal
\* digits after "0x" or decimal digits
parseIntStr(str) ==
    With(trimStart(str), LAMBDA s :
    With(IF s # <<>> /\ s[1] \in {"-", "+"} THEN 2 ELSE 1, LAMBDA a :
    With(a + 1 <= Len(s) /\ s[a] = "0" /\ s[a + 1] \in {"x", "X"}, LAMBDA hex :
    With(IF hex THEN a + 2 ELSE a, LAMBDA b :
    With(IF hex THEN HexEnd(s, b) ELSE DigitsEnd(s, b), LAMBDA e :
    With(IF hex THEN HexValue(s, b, e - 1) ELSE DecValue(s, b, e - 1), LAMBDA mag :
        IF e = b THEN NaN ELSE Num(IF s[1] = "-" THEN 0 - mag ELSE mag)))))))

\* parseInt of a stored field value
parseInt(x) ==
    CASE x.t = "str" -> parseIntStr(x.s)
      [] x.t = "num" -> x
      [] x.t = "dec" -> Num(IF x.v < 0 THEN 0 - ((0 - x.v) \div 10) ELSE x.v \div 10)
      [] OTHER -> NaN

\* array.sort((a, b) => a.key - b.key): the order of the indices 1..n after
\* a stable sort by keys; a comparison with NaN counts as "equal"
RECURSIVE SortOrder(_, _)
SortOrder(keys, n) ==
    IF n = 0 THEN <<>>
    ELSE With(SortOrder(keys, n - 1), LAMBDA order :
         With({k \in 1..Len(order) : Gt(keys[order[k]], keys[n])}, LAMBDA after :
             IF after = {} THEN Append(order, n)
             ELSE SubSeq(order, 1, SetMin(after) - 1) \o <<n>>
                      \o SubSeq(order, SetMin(after), Len(order))))

\* no sort: the array in the order it has
keepOrder(seq, keys) == seq

\* a sort that puts the greatest key first
sortDescending(seq, keys) ==
    With(SortOrder(keys, Len(seq)), LAMBDA order :
        [k \in 1..Len(seq) |-> seq[order[Len(seq) + 1 - k]]])

sortByKeys(seq, keys) ==
    With(SortOrder(keys, Len(seq)), LAMBDA order :
        [k \in 1..Len(seq) |-> seq[order[k]]])

\* field.replace(/"/g, '')
RemoveQuotes(field) == SelectSeq(field, LAMBDA ch : ch # QUOTE)

\* a loop that keeps every data line, whatever the number of its fields
RECURSIVE StrongLoopKeepsAll(_, _, _)
StrongLoopKeepsAll(lines, i, st) ==
    IF i > Len(lines) THEN st
    ELSE With(trim(lines[i]), LAMBDA line :
             IF line = <<>> THEN StrongLoopKeepsAll(lines, i + 1, st)
             ELSE With(MultiFormat_parseCSVLine(line, ";"), LAMBDA fields :
                      IF i = 1
                      THEN StrongLoopKeepsAll(lines, i + 1,
                               [st EXCEPT !.headers =
                                   [j \in 1..Len(fields) |-> RemoveQuotes(fields[j])]])
                      ELSE IF Len(fields) >= 0
                      THEN StrongLoopKeepsAll(lines, i + 1,
                               [st EXCEPT !.rawEntries =
                                   Append(@, createRowObject(st.headers, fields))])
                      ELSE StrongLoopKeepsAll(lines, i + 1, st)))

\* the loop of parseStrongFormat from line i on; st holds the locals headers
\* and rawEntries
RECURSIVE StrongLoop(_, _, _)
StrongLoop(lines, i, st) ==
    IF i > Len(lines) THEN st
    ELSE With(trim(lines[i]), LAMBDA line :
             IF line = <<>> THEN StrongLoop(lines, i + 1, st)
             ELSE With(MultiFormat_parseCSVLine(line, ";"), LAMBDA fields :
                      IF i = 1
                      THEN StrongLoop(lines, i + 1,
                               [st EXCEPT !.headers =
                                   [j \in 1..Len(fields) |-> RemoveQuotes(fields[j])]])
                      ELSE IF Len(fields) >= Len(st.headers)
                      THEN StrongLoop(lines, i + 1,
                               [st EXCEPT !.rawEntries =
                                   Append(@, createRowObject(st.headers, fields))])
                      ELSE StrongLoop(lines, i + 1, st)))

rawEntriesOf(csvContent) ==
    StrongLoop(split(csvContent, "\n"), 1, [headers |-> <<>>, rawEntries |-> <<>>]).rawEntries

\* setData of one entry
setDataOf(entry) ==
    With(OrElse(parseFloat(Get(entry, K.WeightKg)), Num(0)), LAMBDA weight :
    With(OrElse(parseInt(Get(entry, K.Reps)), Num(0)), LAMBDA reps :
        [setNumber |-> parseInt(Get(entry, K.SetOrder)),
         weight |-> weight,
         reps |-> reps,
         distance |-> OrElse(parseFloat(Get(entry, K.DistanceMeters)), Num(0)),
         seconds |-> OrElse(parseFloat(Get(entry, K.Seconds)), Num(0)),
         rpe |-> OrElse(Get(entry, K.RPE), Str(<<>>)),
         notes |-> OrElse(Get(entry, K.Notes), Str(<<>>)),
         volume |-> Mul(weight, reps)]))

\* index of the element of seq whose field f is x, 0 when there is none
IndexOfId(seq, x) ==
    IF \E i \in 1..Len(seq) : seq[i].id = x
    THEN CHOOSE i \in 1..Len(seq) : seq[i].id = x
    ELSE 0

IndexOfName(seq, x) ==
    IF \E i \in 1..Len(seq) : seq[i].name = x
    THEN CHOOSE i \in 1..Len(seq) : seq[i].name = x
    ELSE 0

\* the body of rawEntries.forEach: the Map workouts (a sequence in insertion
\* order) after one more entry
GroupEntry(workouts, entry) ==
    LET workoutId == Get(entry, K.WorkoutNo)
        exerciseName == Get(entry, K.ExerciseName)
    IN  With(IF IndexOfId(workouts, workoutId) = 0
             THEN Append(workouts,
                         [id |-> workoutId,
                          date |-> NewDate(Get(entry, K.Date)),
                          name |-> Get(entry, K.WorkoutName),
                          duration |-> OrElse(parseInt(Get(entry, K.DurationSec)), Num(0)),
                          exercises |-> <<>>,
                          totalSets |-> Num(0),
                          totalVolume |-> Num(0)])
             ELSE workouts, LAMBDA w1 :
        With(IndexOfId(w1, workoutId), LAMBDA wi :
        With(IF IndexOfName(w1[wi].exercises, exerciseName) = 0
             THEN Append(w1[wi].exercises, [name |-> exerciseName, sets |-> <<>>])
             ELSE w1[wi].exercises, LAMBDA e1 :
        With(IndexOfName(e1, exerciseName), LAMBDA ei :
        With(setDataOf(entry), LAMBDA setData :
            [w1 EXCEPT ![wi] =
                [@ EXCEPT !.exercises = [e1 EXCEPT ![ei].sets = Append(@, setData)],
                          !.totalSets = Add(@, Num(1)),
                          !.totalVolume = Add(@, setData.volume)]])))))

RECURSIVE GroupEntries(_, _)
GroupEntries(rawEntries, n) ==
    IF n = 0 THEN <<>> ELSE GroupEntry(GroupEntries(rawEntries, n - 1), rawEntries[n])

\* Math.max(...values) of numbers: -Infinity (no number of this model, NaN
\* here) when there is none
RECURSIVE MathMax(_)
MathMax(values) ==
    IF values = <<>> THEN NaN
    ELSE IF Len(values) = 1 THEN values[1]
    ELSE With(MathMax(SubSeq(values, 1, Len(values) - 1)), LAMBDA m :
             IF Gt(values[Len(values)], m) THEN values[Len(values)] ELSE m)

\* exercise.sets.reduce((sum, set) => sum + set.volume, 0)
RECURSIVE SumVolume(_)
SumVolume(sets) ==
    IF sets = <<>> THEN Num(0)
    ELSE Add(SumVolume(SubSeq(sets, 1, Len(sets) - 1)), sets[Len(sets)].volume)

\* the session object of one workout (its date is valid)
sessionOf(workout) ==
    (K._id :> workout.id)
        @@ (K.starttime :> Num(workout.date.s))
        @@ (K.total_time :> workout.duration)
        @@ (K.workout_time :> workout.duration)
        @@ (K.total_exercise :> Num(Len(workout.exercises)))
        @@ (K.total_weight :> workout.totalVolume)
        @@ (K.TIMESTAMP :> Iso(workout.date.s))
        @@ (K.workout_name :> workout.name)

\* the exerciseEntry object of one exercise of one workout
exerciseEntryOf(workout, exercise) ==
    With(sortByKeys(exercise.sets,
                    [i \in 1..Len(exercise.sets) |-> exercise.sets[i].setNumber]),
         LAMBDA sets :
             (K.exercisename :> exercise.name)
                 @@ (K.sets :> Arr(sets))
                 @@ (K.totalSets :> Num(Len(sets)))
                 @@ (K.totalVolume :> SumVolume(sets))
                 @@ (K.maxWeight :> MathMax([i \in 1..Len(sets) |-> sets[i].weight]))
                 @@ (K.TIMESTAMP :> Iso(workout.date.s))
                 @@ (K.workout_id :> workout.id)
                 @@ (K.workout_name :> workout.name))

\* the exerciseEntry objects of workouts[1..n], in the order they are pushed
RECURSIVE ExerciseEntries(_, _)
ExerciseEntries(workouts, n) ==
    IF n = 0 THEN <<>>
    ELSE ExerciseEntries(workouts, n - 1)
             \o [j \in 1..Len(workouts[n].exercises) |->
                    exerciseEntryOf(workouts[n], workouts[n].exercises[j])]

\* Math.ceil(a / b) for b > 0
CeilDiv(a, b) == 0 - ((0 - a) \div b)

\* MultiFormatWorkoutParser.getStrongDateRange; the starttime of a session is
\* an integer number of seconds
getStrongDateRange(sessions) ==
    IF sessions = <<>> THEN Null
    ELSE With(sortByKeys(sessions, [i \in 1..Len(sessions) |-> sessions[i][K.starttime]]),
              LAMBDA dates :
                  LET first == dates[1][K.starttime].v
                      last == dates[Len(dates)][K.starttime].v
                  IN  [t |-> "range",
                       start |-> DateV(first),
                       end |-> DateV(last),
                       span |-> Num(CeilDiv(last - first, 86400))])

\* MultiFormatWorkoutParser.transformStrongData, called at the instant now:
\* the object it returns, or the RangeError of toISOString() on the first
\* workout whose date is invalid
transformStrongData(rawEntries, now) ==
    With(GroupEntries(rawEntries, Len(rawEntries)), LAMBDA workouts :
        IF \E i \in 1..Len(workouts) : workouts[i].date = InvalidDate
        THEN Threw("RangeError")
        ELSE With([i \in 1..Len(workouts) |-> sessionOf(workouts[i])], LAMBDA workoutSessions :
             With(ExerciseEntries(workouts, Len(workouts)), LAMBDA exercises :
             With(sortByKeys(workoutSessions,
                             [i \in 1..Len(workouts) |-> workoutSessions[i][K.starttime]]),
                  LAMBDA sorted :
                 Returned(
                     [settings |-> (K.format :> Str(<<"s", "t", "r", "o", "n", "g">>))
                                       @@ (K.parsedAt :> Iso(now)),
                      routines |-> <<>>,
                      workoutDays |-> <<>>,
                      exercises |-> exercises,
                      workoutSessions |-> sorted,
                      exerciseLogs |-> exercises,
                      notes |-> <<>>,
                      format |-> "strong",
                      totalWorkouts |-> Num(Len(workoutSessions)),
                      dateRange |-> getStrongDateRange(sorted)])))))

parseStrongFormat(csvContent, now) == transformStrongData(rawEntriesOf(csvContent), now)

-----------------------------------------------------------------------------
(* MultiFormatWorkoutParser.parse and WorkoutParser.parse as methods of the *)
(* parser object                                                           *)

\* The effect of parse(csvContent) at the instant now on a parser object of
\* class c with this.data = d, this.sectionHeaders = sh and
\* this.detectedFormat = f: the new values of the three fields and the
\* outcome of the call.  WorkoutParser.parse returns this.data itself.
parse(c, d, sh, f, csvContent, now) ==
    IF c = "MultiFormatWorkoutParser" /\ detectFormat(csvContent) = "strong"
    THEN [data |-> d,
          sectionHeaders |-> sh,
          detectedFormat |-> "strong",
          outcome |-> parseStrongFormat(csvContent, now)]
    ELSE With(WorkoutParser_parse(c, d, sh, csvContent), LAMBDA st :
             [data |-> st.data,
              sectionHeaders |-> st.sectionHeaders,
              detectedFormat |-> IF c = "MultiFormatWorkoutParser"
                                 THEN detectFormat(csvContent) ELSE f,
              outcome |-> Returned(st.data)])

\* The body of this.data.exercises.forEach of WorkoutParser.getSummary
\* (strong = FALSE: the sets are counted where exercise.sets is there) and
\* of getStrongSummary (strong = TRUE: exercise.totalSets || 0 is added)
RECURSIVE ExerciseTotals(_, _)
ExerciseTotals(exercises, strong) ==
    IF exercises = <<>> THEN [totalSets |-> Num(0), totalVolume |-> Num(0)]
    ELSE With(ExerciseTotals(SubSeq(exercises, 1, Len(exercises) - 1), strong), LAMBDA t :
         With(exercises[Len(exercises)], LAMBDA exercise :
             IF strong
             THEN [totalSets |-> Add(t.totalSets, OrElse(Get(exercise, K.totalSets), Num(0))),
                   totalVolume |->
                       Add(t.totalVolume, OrElse(Get(exercise, K.totalVolume), Num(0)))]
             ELSE IF Truthy(Get(exercise, K.sets))
             THEN [totalSets |-> Add(t.totalSets, Num(Len(exercise[K.sets].a))),
                   totalVolume |->
                       Add(t.totalVolume, OrElse(Get(exercise, K.totalVolume), Num(0)))]
             ELSE t))

\* getSummary() on a parser object of class c with this.data = d and
\* this.detectedFormat = f: getStrongSummary for the class
\* MultiFormatWorkoutParser when f is 'strong', else
\* WorkoutParser.getSummary.  Both read this.data.  Of the object returned
\* the four totals are kept; its other properties (totalNotes,
\* avgWorkoutTime, dateRange, exerciseTypes, workoutFrequency, format) are
\* read off this.data in the same way, change nothing and raise nothing.
getSummary(c, d, f) ==
    With(ExerciseTotals(d.exercises, c = "MultiFormatWorkoutParser" /\ f = "strong"),
         LAMBDA t :
             Returned([totalWorkouts |-> Num(Len(d.workoutSessions)),
                       totalExercises |-> Num(Len(d.exercises)),
                       totalSets |-> t.totalSets,
                       totalVolume |-> t.totalVolume]))

-----------------------------------------------------------------------------
(* WorkoutAnalyzer.getPersonalRecords and                                   *)
(* EnhancedWorkoutAnalyzer.getPersonalRecords.  The records object is a     *)
(* function from exercise names to records.                                 *)

\* a later set of the same weight replaces the record too
ReplacesRecordOrTies(records, name, weight) ==
    name \notin DOMAIN records
        \/ Gt(weight, records[name].weight) \/ weight = records[name].weight

\* !records[name] || set.weight > records[name].weight
ReplacesRecord(records, name, weight) ==
    name \notin DOMAIN records \/ Gt(weight, records[name].weight)

\* exercise.sets.forEach of WorkoutAnalyzer.getPersonalRecords, sets[1..n]
RECURSIVE BaseRecordSets(_, _, _, _)
BaseRecordSets(records, exercise, sets, n) ==
    IF n = 0 THEN records
    ELSE LET before == BaseRecordSets(records, exercise, sets, n - 1)
             name == exercise[K.exercisename]
             set == sets[n]
         IN  IF ReplacesRecord(before, name, set.weight)
             THEN Put(before, name,
                      [weight |-> set.weight,
                       reps |-> set.reps,
                       date |-> Get(exercise, K.TIMESTAMP),
                       volume |-> set.volume])
             ELSE before

\* exercise.sets.forEach of EnhancedWorkoutAnalyzer.getPersonalRecords
RECURSIVE EnhancedRecordSets(_, _, _, _)
EnhancedRecordSets(records, exercise, sets, n) ==
    IF n = 0 THEN records
    ELSE LET before == EnhancedRecordSets(records, exercise, sets, n - 1)
             name == exercise[K.exercisename]
             set == sets[n]
             weight == OrElse(set.weight, Num(0))
         IN  IF weight = Num(0) THEN before
             ELSE IF ReplacesRecord(before, name, weight)
             THEN Put(before, name,
                      [weight |-> weight,
                       reps |-> OrElse(set.reps, Num(0)),
                       date |-> Get(exercise, K.TIMESTAMP),
                       volume |-> OrElse(set.volume, Num(0)),
                       workoutName |-> OrElse(Get(exercise, K.workout_name),
                                              Str(<<"U", "n", "k", "n", "o", "w", "n">>))])
             ELSE before

\* the exercises that pass "if (!name || !exercise.sets) return"
HasNameAndSets(exercise) ==
    Truthy(Get(exercise, K.exercisename)) /\ Truthy(Get(exercise, K.sets))

\* this.data.exercises.forEach of getPersonalRecords of the analyzer class
\* a, exercises[1..n]
RECURSIVE RecordsOf(_, _, _)
RecordsOf(a, exercises, n) ==
    IF n = 0 THEN EmptyObj
    ELSE LET before == RecordsOf(a, exercises, n - 1)
             exercise == exercises[n]
         IN  IF ~HasNameAndSets(exercise) THEN before
             ELSE IF a = "EnhancedWorkoutAnalyzer"
             THEN EnhancedRecordSets(before, exercise, exercise[K.sets].a,
                                     Len(exercise[K.sets].a))
             ELSE BaseRecordSets(before, exercise, exercise[K.sets].a,
                                 Len(exercise[K.sets].a))

\* getPersonalRecords of an analyzer of class a constructed on parsedData.
\* exercise.sets.forEach is no function, a TypeError, when sets is a truthy
\* value other than an array (a column named "sets").
getPersonalRecords(a, parsedData) ==
    IF \E i \in 1..Len(parsedData.exercises) :
           /\ HasNameAndSets(parsedData.exercises[i])
           /\ parsedData.exercises[i][K.sets].t # "arr"
    THEN Threw("TypeError")
    ELSE Returned(RecordsOf(a, parsedData.exercises, Len(parsedData.exercises)))

-----------------------------------------------------------------------------
(* getWorkoutConsistency, getExerciseProgress, getCardioExercises and        *)
(* getStrengthExercises of WorkoutAnalyzer and EnhancedWorkoutAnalyzer       *)

\* this.format of an EnhancedWorkoutAnalyzer: parsedData.format || 'multi-section'
formatOf(parsedData) ==
    IF "format" \in DOMAIN parsedData THEN parsedData.format ELSE "multi-section"

\* new Date(session.starttime * 1000) as the day since the epoch and the
\* millisecond of that day; InvalidDate when starttime * 1000 is NaN.  A
\* string left by createRowObject is no number, the empty string converts
\* to 0; a Date converts to its milliseconds.
startDate(starttime) ==
    CASE starttime.t = "num" ->
             [day |-> starttime.v \div 86400, ms |-> (starttime.v % 86400) * 1000]
      [] starttime.t = "dec" ->
             [day |-> starttime.v \div 864000, ms |-> (starttime.v % 864000) * 100]
      [] starttime.t = "str" ->
             IF trim(starttime.s) = <<>> THEN [day |-> 0, ms |-> 0] ELSE InvalidDate
      [] starttime.t = "date" ->
             [day |-> (starttime.s \div 86400) * 1000 + ((starttime.s % 86400) * 1000) \div 86400,
              ms |-> (((starttime.s % 86400) * 1000) % 86400) * 1000]
      [] starttime.t = "null" -> [day |-> 0, ms |-> 0]
      [] OTHER -> InvalidDate

\* workoutDates: the valid dates of the sessions, sorted ascending (a date
\* comes before another when its day does or, on one day, its millisecond)
workoutDatesOf(sessions) ==
    With(SelectSeq([i \in 1..Len(sessions) |-> startDate(Get(sessions[i], K.starttime))],
                   LAMBDA d : d # InvalidDate),
         LAMBDA valid :
             [k \in 1..Len(valid) |->
                 valid[CHOOSE i \in 1..Len(valid) :
                           Cardinality({j \in 1..Len(valid) :
                               \/ valid[j].day < valid[i].day
                               \/ valid[j].day = valid[i].day /\ valid[j].ms < valid[i].ms
                               \/ valid[j] = valid[i] /\ j < i}) = k - 1]])

\* gaps: Math.ceil((workoutDates[i] - workoutDates[i-1]) / (1000 * 60 * 60 * 24))
gapsOf(workoutDates) ==
    [i \in 1..(Len(workoutDates) - 1) |->
        (workoutDates[i + 1].day - workoutDates[i].day)
            + (IF workoutDates[i + 1].ms > workoutDates[i].ms THEN 1 ELSE 0)]

\* gaps.reduce((a, b) => a + b, 0)
RECURSIVE SumGaps(_)
SumGaps(gaps) ==
    IF gaps = <<>> THEN 0 ELSE SumGaps(SubSeq(gaps, 1, Len(gaps) - 1)) + gaps[Len(gaps)]

\* no test of workoutDates.length: an object is returned for any number of
\* dates
consistencyOfAnyLength(a, parsedData) ==
    Returned([totalGaps |-> Num(Len(gapsOf(workoutDatesOf(parsedData.workoutSessions))))])

\* getWorkoutConsistency of an analyzer of class a constructed on parsedData:
\* null when fewer than 2 dates are valid.  Math.round(sum / n) is the
\* nearest integer, a half rounded up: (2 * sum + n) \div (2 * n).
getWorkoutConsistency(a, parsedData) ==
    With(workoutDatesOf(parsedData.workoutSessions), LAMBDA workoutDates :
        IF Len(workoutDates) < 2 THEN Returned(Null)
        ELSE With(gapsOf(workoutDates), LAMBDA gaps :
                 With([averageGap |->
                           Num((2 * SumGaps(gaps) + Len(gaps)) \div (2 * Len(gaps))),
                       minGap |-> Num(SetMin({gaps[i] : i \in 1..Len(gaps)})),
                       maxGap |-> Num(SetMax({gaps[i] : i \in 1..Len(gaps)})),
                       totalGaps |-> Num(Len(gaps))],
                      LAMBDA result :
                          IF a = "EnhancedWorkoutAnalyzer"
                          THEN Returned(result @@ [format |-> formatOf(parsedData)])
                          ELSE Returned(result))))

\* Math.max() of no argument
NegInfinity == [t |-> "-inf"]

\* one element of the array getExerciseProgress returns
progressOf(a, parsedData, ex) ==
    IF a = "EnhancedWorkoutAnalyzer" /\ formatOf(parsedData) = "strong"
    THEN [date |-> Get(ex, K.TIMESTAMP),
          workoutId |-> Get(ex, K.workout_id),
          workoutName |-> Get(ex, K.workout_name),
          sets |-> OrElse(Get(ex, K.sets), Arr(<<>>)),
          maxWeight |-> OrElse(Get(ex, K.maxWeight), Num(0)),
          totalVolume |-> OrElse(Get(ex, K.totalVolume), Num(0)),
          totalSets |-> OrElse(Get(ex, K.totalSets), Num(0))]
    ELSE [date |-> Get(ex, K.TIMESTAMP),
          sets |-> OrElse(Get(ex, K.sets), Arr(<<>>)),
          maxWeight |-> IF ~Truthy(Get(ex, K.sets)) THEN Num(0)
                        ELSE IF ex[K.sets].a = <<>> THEN NegInfinity
                        ELSE MathMax([i \in 1..Len(ex[K.sets].a) |-> ex[K.sets].a[i].weight]),
          totalVolume |-> OrElse(Get(ex, K.totalVolume), Num(0))]

\* getExerciseProgress(exerciseName) of an analyzer of class a constructed
\* on parsedData.  ex.sets.map is no function, a TypeError, when sets is a
\* truthy value other than an array (the base method alone reads it).  The
\* key of the sort is new Date(ex.TIMESTAMP) as a number, NaN for an
\* invalid date.
getExerciseProgress(a, parsedData, exerciseName) ==
    With(SelectSeq(parsedData.exercises,
                   LAMBDA ex : Get(ex, K.exercisename) = exerciseName),
         LAMBDA named :
             IF /\ ~(a = "EnhancedWorkoutAnalyzer" /\ formatOf(parsedData) = "strong")
                /\ \E i \in 1..Len(named) :
                       Truthy(Get(named[i], K.sets)) /\ named[i][K.sets].t # "arr"
             THEN Threw("TypeError")
             ELSE With(sortByKeys(named,
                                  [i \in 1..Len(named) |->
                                      With(NewDate(Get(named[i], K.TIMESTAMP)), LAMBDA d :
                                          IF d = InvalidDate THEN NaN ELSE Num(d.s))]),
                       LAMBDA sorted :
                           Returned([i \in 1..Len(sorted) |->
                                        progressOf(a, parsedData, sorted[i])])))

\* exercise.sets.some(...) and exercise.sets.length are a TypeError when an
\* exercise has no array of sets
SetsMissing(exercises) ==
    \E i \in 1..Len(exercises) : Get(exercises[i], K.sets).t # "arr"

\* sets.reduce((sum, set) => sum + (set[field] || 0), 0)
RECURSIVE SumField(_, _)
SumField(sets, field) ==
    IF sets = <<>> THEN Num(0)
    ELSE Add(SumField(SubSeq(sets, 1, Len(sets) - 1), field),
             OrElse(sets[Len(sets)][field], Num(0)))

\* EnhancedWorkoutAnalyzer.getCardioExercises; the filter keeps an exercise
\* with a set of distance > 0 || (seconds > 0 && weight === 0)
getCardioExercises(parsedData) ==
    IF formatOf(parsedData) # "strong" THEN Returned(<<>>)
    ELSE IF SetsMissing(parsedData.exercises) THEN Threw("TypeError")
    ELSE With(SelectSeq(parsedData.exercises,
                        LAMBDA exercise :
                            \E j \in 1..Len(exercise[K.sets].a) :
                                \/ Gt(exercise[K.sets].a[j].distance, Num(0))
                                \/ /\ Gt(exercise[K.sets].a[j].seconds, Num(0))
                                   /\ exercise[K.sets].a[j].weight = Num(0)),
              LAMBDA cardio :
                  Returned([i \in 1..Len(cardio) |->
                      [name |-> Get(cardio[i], K.exercisename),
                       sessions |-> Num(Len(cardio[i][K.sets].a)),
                       totalDistance |-> SumField(cardio[i][K.sets].a, "distance"),
                       totalTime |-> SumField(cardio[i][K.sets].a, "seconds"),
                       lastPerformed |-> Get(cardio[i], K.TIMESTAMP)]]))

\* EnhancedWorkoutAnalyzer.getStrengthExercises
getStrengthExercises(parsedData) ==
    IF SetsMissing(parsedData.exercises) THEN Threw("TypeError")
    ELSE Returned(SelectSeq(parsedData.exercises,
                            LAMBDA exercise :
                                \E j \in 1..Len(exercise[K.sets].a) :
                                    Gt(OrElse(exercise[K.sets].a[j].weight, Num(0)), Num(0))))

-----------------------------------------------------------------------------
(* Input lines.  Scenario A follows sampleCSV of src/unnamed/part_001 with   *)
(* fewer columns; its exercise row_id is shortened to fit 32-bit integers.  *)

SampleCSV ==
    [SettingMarker |->
         <<"#", "#", "#", " ", "S", "E", "T", "T", "I", "N", "G", " ", "#", "#", "#", "#", "#", "#",
         "#", "#", "#", "#">>,
     SettingHeader |->
         <<"r", "o", "w", "_", "i", "d", ",", "U", "S", "E", "R", "I", "D", ",", "T", "I", "M", "E",
         "S", "T", "A", "M", "P", ",", "g", "e", "n", "d", "e", "r", ",", "n", "a", "m", "e", ",",
         "s", "e", "t", "s", ",", "t", "a", "r", "g", "e", "t", "r", "e", "p">>,
     SettingRow |->
         <<"9", "7", "5", "6", "3", "7", "2", "0", ",", "1", "1", "6", "1", "2", "9", "0", "3", ",",
         "\"", "2", "0", "2", "5", "-", "0", "6", "-", "0", "2", " ", "0", "6", ":", "5", "3",
         ":", "5", "0", "\"", ",", "M", ",", ",", "4", ",", "8">>,
     Separator |->
         <<"#", "#", "#", "#", "#", "#", "#", "#", "#", "#", "#", "#", "#", "#", "#", "#", "#", "#",
         "#", "#", "#", "#">>,
     RoutinesMarker |->
         <<"#", "#", "#", " ", "R", "O", "U", "T", "I", "N", "E", "S", " ", "#", "#", "#", "#", "#",
         "#", "#", "#", "#">>,
     RoutineHeader |->
         <<"r", "o", "w", "_", "i", "d", ",", "U", "S", "E", "R", "I", "D", ",", "T", "I", "M", "E",
         "S", "T", "A", "M", "P", ",", "_", "i", "d", ",", "n", "a", "m", "e", ",", "d", "i", "f",
         "f", "i", "c", "u", "l", "t", "y", ",", "f", "o", "c", "u", "s", ",", "d", "a", "y", "a",
         "w", "e", "e", "k">>,
     RoutineRow |->
         <<"5", "3", "5", "6", "0", "5", "8", "1", ",", "1", "1", "6", "1", "2", "9", "0", "3", ",",
         "\"", "2", "0", "2", "4", "-", "0", "6", "-", "0", "8", " ", "1", "7", ":", "0", "6",
         ":", "2", "8", "\"", ",", "1", ",", "\"", "B", "a", "r", "b", "e", "l", "l", " ", "F",
         "o", "c", "u", "s", "e", "d", " ", "P", "l", "a", "n", "\"", ",", "0", ",", "0", ",", "5">>,
     DayHeader |->
         <<"r", "o", "w", "_", "i", "d", ",", "U", "S", "E", "R", "I", "D", ",", "T", "I", "M", "E",
         "S", "T", "A", "M", "P", ",", "p", "a", "c", "k", "a", "g", "e", ",", "_", "i", "d", ",",
         "n", "a", "m", "e", ",", "d", "a", "y", ",", "d", "a", "y", "I", "n", "d", "e", "x", ",",
         "r", "e", "s", "t", "_", "d", "a", "y">>,
     DayRow |->
         <<"2", "7", "5", "1", "8", "7", "1", "8", "2", ",", "1", "1", "6", "1", "2", "9", "0", "3",
         ",", "\"", "2", "0", "2", "5", "-", "0", "8", "-", "0", "6", " ", "0", "0", ":", "1",
         "6", ":", "5", "6", "\"", ",", "1", ",", "1", ",", "\"", "B", "a", "c", "k", " ", "d",
         "e", "a", "d", "l", "i", "f", "t", "\"", ",", "1", ",", "1", ",", "0">>,
     ExerciseHeader |->
         <<"r", "o", "w", "_", "i", "d", ",", "U", "S", "E", "R", "I", "D", ",", "T", "I", "M", "E",
         "S", "T", "A", "M", "P", ",", "_", "i", "d", ",", "e", "x", "e", "r", "c", "i", "s", "e",
         "_", "i", "d", ",", "e", "x", "e", "r", "c", "i", "s", "e", "n", "a", "m", "e", ",", "s",
         "e", "t", "c", "o", "u", "n", "t", ",", "t", "i", "m", "e", "r", ",", "l", "o", "g", "s",
         ",", "b", "o", "d", "y", "p", "a", "r", "t", ",", "s", "e", "t", "d", "o", "n", "e", "t",
         "i", "m", "e">>,
     ExerciseRow |->
         <<"6", "4", "5", "2", "5", "5", "3", "2", "0", ",", "1", "1", "6", "1", "2", "9", "0", "3",
         ",", "\"", "2", "0", "2", "4", "-", "1", "2", "-", "1", "8", " ", "1", "6", ":", "0",
         "7", ":", "1", "7", "\"", ",", "6", ",", "9", "3", ",", "\"", "B", "a", "r", "b", "e",
         "l", "l", " ", "D", "e", "a", "d", "l", "i", "f", "t", "\"", ",", "6", ",", "6", "0",
         ",", "\"", "2", "0", "x", "1", "0", ",", "7", "0", "x", "5", ",", "9", "0", "x", "5",
         ",", "1", "0", "0", "x", "5", ",", "1", "0", "0", "x", "4", ",", "1", "0", "0", "x", "3",
         "\"", ",", "0", ",", "1", "7", "2", "0", "4", "2", "8", "7", "3", "7">>,
     SessionsMarker |->
         <<"#", "#", "#", " ", "W", "O", "R", "K", "O", "U", "T", " ", "S", "E", "S", "S", "I", "O",
         "N", "S", " ", "#", "#", "#", "#">>,
     SessionHeader |->
         <<"r", "o", "w", "i", "d", ",", "_", "i", "d", ",", "U", "S", "E", "R", "I", "D", ",", "e",
         "d", "i", "t", "_", "t", "i", "m", "e", ",", "t", "o", "t", "a", "l", "_", "t", "i", "m",
         "e", ",", "w", "o", "r", "k", "o", "u", "t", "_", "t", "i", "m", "e", ",", "t", "o", "t",
         "a", "l", "_", "e", "x", "e", "r", "c", "i", "s", "e", ",", "t", "o", "t", "a", "l", "_",
         "w", "e", "i", "g", "h", "t", ",", "s", "t", "a", "r", "t", "t", "i", "m", "e", ",", "T",
         "I", "M", "E", "S", "T", "A", "M", "P">>,
     SessionRow |->
         <<"1", "9", "9", "0", "7", "6", "3", "5", "8", "6", ",", "1", "7", "0", "8", "1", "9", "5",
         "7", "6", "1", ",", "1", "1", "6", "1", "2", "9", "0", "3", ",", "1", "7", "0", "8", "3",
         "6", "7", "5", "7", "7", ",", "3", "4", "8", ",", "1", "4", "0", ",", "1", ",", "9", "4",
         "0", ",", "1", "7", "0", "8", "1", "9", "5", "7", "6", "1", ",", "\"", "2", "0", "2",
         "4", "-", "0", "2", "-", "2", "1", " ", "1", "3", ":", "3", "8", ":", "4", "6", "\"">>,
     NotesMarker |->
         <<"#", "#", "#", " ", "N", "O", "T", "E", "S", " ", "#", "#", "#", "#", "#", "#", "#", "#",
         "#", "#", "#", "#", "#">>,
     NoteHeader |->
         <<"r", "o", "w", "_", "i", "d", ",", "T", "I", "M", "E", "S", "T", "A", "M", "P", ",", "U",
         "S", "E", "R", "I", "D", ",", "_", "i", "d", ",", "e", "i", "d", ",", "m", "y", "n", "o",
         "t", "e", ",", "t", "i", "t", "l", "e", ",", "m", "y", "d", "a", "t", "e", ",", "l", "o",
         "g", "T", "i", "m", "e">>,
     NoteRow |->
         <<"2", "0", "1", "0", "9", "7", "2", "1", "8", ",", "\"", "2", "0", "2", "4", "-", "0",
         "2", "-", "2", "3", " ", "1", "2", ":", "0", "5", ":", "3", "8", "\"", ",", "1", "1",
         "6", "1", "2", "9", "0", "3", ",", "1", ",", "1", "6", "1", ",", "\"", "C", "h", "a",
         "i", "r", " ", "o", "n", " ", "d", "i", "s", "t", "a", "n", "c", "e", " ", "3", "\"",
         ",", "\"", "M", "a", "c", "h", "i", "n", "e", " ", "S", "e", "a", "t", "e", "d", " ",
         "L", "e", "g", " ", "C", "u", "r", "l", "\"", ",", "2", "0", "2", "4", "-", "0", "2",
         "-", "2", "1", ",", "1", "7", "0", "8", "5", "2", "2", "6", "4", "0">>]

\* sampleCSV: one settings row, one routine row, one workout-day row, one
\* exercise row, one session row and one note row, each sub-table after its
\* own header line
ScenarioALines ==
    <<<<>>, SampleCSV.SettingMarker, <<>>, SampleCSV.SettingHeader, SampleCSV.SettingRow, <<>>, SampleCSV.Separator, <<>>,
      SampleCSV.RoutinesMarker, <<>>, SampleCSV.RoutineHeader, SampleCSV.RoutineRow, <<>>,
      SampleCSV.DayHeader, SampleCSV.DayRow, <<>>, SampleCSV.ExerciseHeader, SampleCSV.ExerciseRow, <<>>, SampleCSV.Separator, <<>>,
      SampleCSV.SessionsMarker, <<>>, SampleCSV.SessionHeader, SampleCSV.SessionRow, <<>>, SampleCSV.Separator, <<>>,
      SampleCSV.NotesMarker, <<>>, SampleCSV.NoteHeader, SampleCSV.NoteRow, <<>>, SampleCSV.Separator, <<>>>>

\* Exercise rows of a ROUTINES section with the columns
\* row_id,TIMESTAMP,exercisename,logs
ExerciseLines ==
    [Marker |->
         <<"#", "#", "#", " ", "R", "O", "U", "T", "I", "N", "E", "S", " ", "#", "#", "#">>,
     Header |->
         <<"r", "o", "w", "_", "i", "d", ",", "T", "I", "M", "E", "S", "T", "A", "M", "P", ",", "e",
         "x", "e", "r", "c", "i", "s", "e", "n", "a", "m", "e", ",", "l", "o", "g", "s">>,
     Deadlift6 |->
         <<"1", ",", "\"", "2", "0", "2", "4", "-", "1", "2", "-", "1", "8", " ", "1", "6", ":",
         "0", "7", ":", "1", "7", "\"", ",", "\"", "B", "a", "r", "b", "e", "l", "l", " ", "D",
         "e", "a", "d", "l", "i", "f", "t", "\"", ",", "\"", "2", "0", "x", "1", "0", ",", "7",
         "0", "x", "5", ",", "9", "0", "x", "5", ",", "1", "0", "0", "x", "5", ",", "1", "0", "0",
         "x", "4", ",", "1", "0", "0", "x", "3", "\"">>,
     DeadliftZeroFirst |->
         <<"2", ",", "\"", "2", "0", "2", "4", "-", "1", "2", "-", "2", "0", " ", "1", "6", ":",
         "0", "0", ":", "0", "0", "\"", ",", "\"", "B", "a", "r", "b", "e", "l", "l", " ", "D",
         "e", "a", "d", "l", "i", "f", "t", "\"", ",", "\"", "0", "x", "0", ",", "5", "0", "x",
         "5", "\"">>,
     PushUpBodyweight |->
         <<"3", ",", "\"", "2", "0", "2", "4", "-", "1", "2", "-", "2", "1", " ", "1", "6", ":",
         "0", "0", ":", "0", "0", "\"", ",", "\"", "P", "u", "s", "h", " ", "U", "p", "\"", ",",
         "\"", "0", "x", "1", "2", ",", "0", "x", "1", "0", "\"">>,
     GobletSquat |->
         <<"4", ",", "\"", "2", "0", "2", "4", "-", "1", "2", "-", "2", "2", " ", "1", "6", ":",
         "0", "0", ":", "0", "0", "\"", ",", "\"", "G", "o", "b", "l", "e", "t", " ", "S", "q",
         "u", "a", "t", "\"", ",", "\"", "0", "x", "1", "2", ",", "2", "0", "x", "5", "\"">>,
     PlankLogs0 |->
         <<"5", ",", "\"", "2", "0", "2", "4", "-", "1", "2", "-", "2", "3", " ", "1", "6", ":",
         "0", "0", ":", "0", "0", "\"", ",", "\"", "P", "l", "a", "n", "k", "\"", ",", "0">>,
     PlankNoLogs |->
         <<"6", ",", "\"", "2", "0", "2", "4", "-", "1", "2", "-", "2", "4", " ", "1", "6", ":",
         "0", "0", ":", "0", "0", "\"", ",", "\"", "P", "l", "a", "n", "k", "\"", ",">>]

ExerciseRowPalette ==
    {ExerciseLines.Deadlift6, ExerciseLines.DeadliftZeroFirst, ExerciseLines.PushUpBodyweight, ExerciseLines.GobletSquat,
     ExerciseLines.PlankLogs0, ExerciseLines.PlankNoLogs}

\* Lines of the single-table format, after the Strong App example of
\* src/README.md
StrongLines ==
    [Header |->
         <<"\"", "W", "o", "r", "k", "o", "u", "t", " ", "#", "\"", ";", "\"", "D", "a", "t", "e",
         "\"", ";", "\"", "W", "o", "r", "k", "o", "u", "t", " ", "N", "a", "m", "e", "\"", ";",
         "\"", "D", "u", "r", "a", "t", "i", "o", "n", " ", "(", "s", "e", "c", ")", "\"", ";",
         "\"", "E", "x", "e", "r", "c", "i", "s", "e", " ", "N", "a", "m", "e", "\"", ";", "\"",
         "S", "e", "t", " ", "O", "r", "d", "e", "r", "\"", ";", "\"", "W", "e", "i", "g", "h",
         "t", " ", "(", "k", "g", ")", "\"", ";", "\"", "R", "e", "p", "s", "\"", ";", "\"", "R",
         "P", "E", "\"", ";", "\"", "D", "i", "s", "t", "a", "n", "c", "e", " ", "(", "m", "e",
         "t", "e", "r", "s", ")", "\"", ";", "\"", "S", "e", "c", "o", "n", "d", "s", "\"", ";",
         "\"", "N", "o", "t", "e", "s", "\"", ";", "\"", "W", "o", "r", "k", "o", "u", "t", " ",
         "N", "o", "t", "e", "s", "\"">>,
     Bench1 |->
         <<"\"", "1", "\"", ";", "\"", "2", "0", "2", "4", "-", "0", "8", "-", "0", "6", " ", "1",
         "3", ":", "5", "9", ":", "5", "3", "\"", ";", "\"", "P", "u", "s", "h", " ", "D", "a",
         "y", "\"", ";", "\"", "1", "2", "0", "0", "\"", ";", "\"", "B", "e", "n", "c", "h", " ",
         "P", "r", "e", "s", "s", " ", "(", "B", "a", "r", "b", "e", "l", "l", ")", "\"", ";",
         "\"", "1", "\"", ";", "\"", "8", "0", ".", "0", "\"", ";", "\"", "8", "\"", ";", "\"",
         "\"", ";", "\"", "\"", ";", "\"", "\"", ";", "\"", "\"", ";", "\"", "\"">>,
     Bench2 |->
         <<"\"", "1", "\"", ";", "\"", "2", "0", "2", "4", "-", "0", "8", "-", "0", "6", " ", "1",
         "3", ":", "5", "9", ":", "5", "3", "\"", ";", "\"", "P", "u", "s", "h", " ", "D", "a",
         "y", "\"", ";", "\"", "1", "2", "0", "0", "\"", ";", "\"", "B", "e", "n", "c", "h", " ",
         "P", "r", "e", "s", "s", " ", "(", "B", "a", "r", "b", "e", "l", "l", ")", "\"", ";",
         "\"", "2", "\"", ";", "\"", "8", "0", ".", "0", "\"", ";", "\"", "6", "\"", ";", "\"",
         "\"", ";", "\"", "\"", ";", "\"", "\"", ";", "\"", "\"", ";", "\"", "\"">>,
     Running |->
         <<"\"", "1", "\"", ";", "\"", "2", "0", "2", "4", "-", "0", "8", "-", "0", "6", " ", "1",
         "3", ":", "5", "9", ":", "5", "3", "\"", ";", "\"", "P", "u", "s", "h", " ", "D", "a",
         "y", "\"", ";", "\"", "1", "2", "0", "0", "\"", ";", "\"", "R", "u", "n", "n", "i", "n",
         "g", "\"", ";", "\"", "1", "\"", ";", "\"", "\"", ";", "\"", "\"", ";", "\"", "\"", ";",
         "\"", "2", "0", "0", "0", ".", "0", "\"", ";", "\"", "6", "0", "0", ".", "0", "\"", ";",
         "\"", "\"", ";", "\"", "\"">>,
     Bench3Later |->
         <<"\"", "2", "\"", ";", "\"", "2", "0", "2", "4", "-", "0", "8", "-", "0", "9", " ", "1",
         "0", ":", "0", "0", ":", "0", "0", "\"", ";", "\"", "P", "u", "s", "h", " ", "D", "a",
         "y", "\"", ";", "\"", "1", "5", "0", "0", "\"", ";", "\"", "B", "e", "n", "c", "h", " ",
         "P", "r", "e", "s", "s", " ", "(", "B", "a", "r", "b", "e", "l", "l", ")", "\"", ";",
         "\"", "3", "\"", ";", "\"", "8", "5", ".", "0", "\"", ";", "\"", "5", "\"", ";", "\"",
         "\"", ";", "\"", "\"", ";", "\"", "\"", ";", "\"", "\"", ";", "\"", "\"">>,
     PullUp |->
         <<"\"", "2", "\"", ";", "\"", "2", "0", "2", "4", "-", "0", "8", "-", "0", "9", " ", "1",
         "0", ":", "0", "0", ":", "0", "0", "\"", ";", "\"", "P", "u", "s", "h", " ", "D", "a",
         "y", "\"", ";", "\"", "1", "5", "0", "0", "\"", ";", "\"", "P", "u", "l", "l", " ", "U",
         "p", "\"", ";", "\"", "1", "\"", ";", "\"", "0", "\"", ";", "\"", "1", "2", "\"", ";",
         "\"", "\"", ";", "\"", "\"", ";", "\"", "\"", ";", "\"", "\"", ";", "\"", "\"">>,
     BenchNoNumbers |->
         <<"\"", "1", "\"", ";", "\"", "2", "0", "2", "4", "-", "0", "8", "-", "0", "6", " ",
         "1", "3", ":", "5", "9", ":", "5", "3", "\"", ";", "\"", "P", "u", "s", "h", " ", "D",
         "a", "y", "\"", ";", "\"", "1", "2", "0", "0", "\"", ";", "\"", "B", "e", "n", "c",
         "h", " ", "P", "r", "e", "s", "s", " ", "(", "B", "a", "r", "b", "e", "l", "l", ")",
         "\"", ";", "\"", "3", "\"", ";", "\"", "h", "e", "a", "v", "y", "\"", ";", "\"", "m",
         "a", "x", "\"", ";", "\"", "\"", ";", "\"", "\"", ";", "\"", "\"", ";", "\"", "\"",
         ";", "\"", "\"">>,
     BadDate |->
         <<"\"", "3", "\"", ";", "\"", "g", "a", "r", "b", "a", "g", "e", "\"", ";", "\"", "L", "e",
         "g", " ", "D", "a", "y", "\"", ";", "\"", "9", "0", "0", "\"", ";", "\"", "S", "q", "u",
         "a", "t", " ", "(", "B", "a", "r", "b", "e", "l", "l", ")", "\"", ";", "\"", "1", "\"",
         ";", "\"", "1", "0", "0", ".", "0", "\"", ";", "\"", "5", "\"", ";", "\"", "\"", ";",
         "\"", "\"", ";", "\"", "\"", ";", "\"", "\"", ";", "\"", "\"">>,
     Truncated |->
         <<"\"", "1", "\"", ";", "\"", "2", "0", "2", "4", "-", "0", "8", "-", "0", "6", " ", "1",
         "3", ":", "5", "9", ":", "5", "3", "\"", ";", "\"", "P", "u", "s", "h", " ", "D", "a",
         "y", "\"">>,
     HeaderNoDate |->
         <<"\"", "W", "o", "r", "k", "o", "u", "t", " ", "#", "\"", ";", "\"", "W", "o", "r", "k",
         "o", "u", "t", " ", "N", "a", "m", "e", "\"", ";", "\"", "D", "u", "r", "a", "t", "i",
         "o", "n", " ", "(", "s", "e", "c", ")", "\"", ";", "\"", "E", "x", "e", "r", "c", "i",
         "s", "e", " ", "N", "a", "m", "e", "\"", ";", "\"", "S", "e", "t", " ", "O", "r", "d",
         "e", "r", "\"", ";", "\"", "W", "e", "i", "g", "h", "t", " ", "(", "k", "g", ")", "\"",
         ";", "\"", "R", "e", "p", "s", "\"">>,
     RowNoDate |->
         <<"\"", "1", "\"", ";", "\"", "P", "u", "s", "h", " ", "D", "a", "y", "\"", ";", "\"", "1",
         "2", "0", "0", "\"", ";", "\"", "B", "e", "n", "c", "h", " ", "P", "r", "e", "s", "s",
         " ", "(", "B", "a", "r", "b", "e", "l", "l", ")", "\"", ";", "\"", "1", "\"", ";", "\"",
         "8", "0", ".", "0", "\"", ";", "\"", "8", "\"">>]

StrongRowPalette ==
    {StrongLines.Bench1, StrongLines.Bench2, StrongLines.Running, StrongLines.Bench3Later, StrongLines.PullUp,
     StrongLines.BenchNoNumbers, StrongLines.BadDate, StrongLines.Truncated}

\* Session rows of a WORKOUT SESSIONS section, after the session row of
\* sampleCSV, with the columns _id,total_time,workout_time,starttime.  The
\* start times are 2024-12-18 16:00:00 UTC, one second, 3 days and 6 days
\* later; one row has an empty starttime field, one has no starttime field
\* and one holds a text.
SessionLines ==
    [Marker |->
         <<"#", "#", "#", " ", "W", "O", "R", "K", "O", "U", "T", " ", "S", "E", "S", "S", "I",
         "O", "N", "S", " ", "#", "#", "#", "#">>,
     Header |->
         <<"_", "i", "d", ",", "t", "o", "t", "a", "l", "_", "t", "i", "m", "e", ",", "w", "o",
         "r", "k", "o", "u", "t", "_", "t", "i", "m", "e", ",", "s", "t", "a", "r", "t", "t",
         "i", "m", "e">>,
     First |->
         <<"1", ",", "3", "4", "8", ",", "1", "4", "0", ",", "1", "7", "3", "4", "5", "3", "7",
         "6", "0", "0">>,
     SecondLater |->
         <<"2", ",", "3", "4", "8", ",", "1", "4", "0", ",", "1", "7", "3", "4", "5", "3", "7",
         "6", "0", "1">>,
     Day3 |->
         <<"3", ",", "3", "4", "8", ",", "1", "4", "0", ",", "1", "7", "3", "4", "7", "9", "6",
         "8", "0", "0">>,
     Day6 |->
         <<"4", ",", "3", "4", "8", ",", "1", "4", "0", ",", "1", "7", "3", "5", "0", "5", "6",
         "0", "0", "0">>,
     BlankStart |->
         <<"5", ",", "3", "4", "8", ",", "1", "4", "0", ",">>,
     NoStart |->
         <<"6", ",", "3", "4", "8", ",", "1", "4", "0">>,
     TextStart |->
         <<"7", ",", "3", "4", "8", ",", "1", "4", "0", ",", "u", "n", "k", "n", "o", "w", "n">>]

-----------------------------------------------------------------------------
(* Specification SpecParse: one parse call on a newly constructed parser    *)
(* object of either class, then analyzers built on the data it returned,    *)
(* or getSummary() on the parser.                                           *)
(* The input is Scenario A, a ROUTINES section of up to MaxExerciseRows     *)
(* exercise rows, or a single-table text of up to MaxStrongRows rows (also  *)
(* one without a Date column and one whose first line is blank).            *)

MaxExerciseRows == 2
MaxStrongRows == 3

ParserClasses == {"WorkoutParser", "MultiFormatWorkoutParser"}
AnalyzerClasses == {"WorkoutAnalyzer", "EnhancedWorkoutAnalyzer"}

\* the instants (in seconds) at which a call can be made: new Date()
Clock == {1762300800, 1762387200}

ExerciseInputs ==
    {<<ExerciseLines.Marker, ExerciseLines.Header>> \o rows : rows \in SeqsUpTo(ExerciseRowPalette, MaxExerciseRows)}

StrongInputs ==
    {<<StrongLines.Header>> \o rows : rows \in SeqsUpTo(StrongRowPalette, MaxStrongRows)}
        \cup {<<StrongLines.HeaderNoDate, StrongLines.RowNoDate>>, <<<<>>, StrongLines.Header, StrongLines.Bench1>>}

ParseInputs == {ScenarioALines} \cup ExerciseInputs \cup StrongInputs

InitParse ==
    /\ \E c \in ParserClasses : Constructed(c)
    /\ given \in ParseInputs
    /\ input = join(given, "\n")

\* parser.parse(input) at the instant now
ParseInput(now) ==
    /\ op = "none"
    /\ \E r \in {parse(cls, data, sectionHeaders, detectedFormat, input, now)} :
           /\ data' = r.data
           /\ sectionHeaders' = r.sectionHeaders
           /\ detectedFormat' = r.detectedFormat
           /\ ret' = r.outcome
           /\ parsed' = r.outcome
    /\ op' = "parse"
    /\ calls' = calls + 1
    /\ UNCHANGED <<cls, input, given>>

\* new a(parsedData).getPersonalRecords() on the data the parse returned
GetPersonalRecords(a) ==
    /\ parsed.kind = "return"
    /\ op' = (IF a = "EnhancedWorkoutAnalyzer"
              THEN "EnhancedWorkoutAnalyzer.getPersonalRecords"
              ELSE "WorkoutAnalyzer.getPersonalRecords")
    /\ ret' = getPersonalRecords(a, parsed.value)
    /\ UNCHANGED <<cls, data, sectionHeaders, detectedFormat, input, parsed, calls, given>>

\* parser.getSummary() as the next call after a parse that returned
GetSummary ==
    /\ op = "parse"
    /\ parsed.kind = "return"
    /\ op' = "getSummary"
    /\ ret' = getSummary(cls, data, detectedFormat)
    /\ UNCHANGED <<cls, data, sectionHeaders, detectedFormat, input, parsed, calls, given>>

NextParse ==
    \/ \E now \in Clock : ParseInput(now)
    \/ \E a \in AnalyzerClasses : GetPersonalRecords(a)
    \/ GetSummary

SpecParse == InitParse /\ [][NextParse]_vars

-----------------------------------------------------------------------------
(* Claims on one parse call (SpecParse) *)

\* exercise.sets, the empty array when the exercise has none
SetsOf(exercise) ==
    IF K.sets \in DOMAIN exercise /\ exercise[K.sets].t = "arr" THEN exercise[K.sets].a
    ELSE <<>>

\* the greatest number of sets of an exercise of the parsed data
MaxSetsOfExercise ==
    SetMax({0} \cup {Len(SetsOf(parsed.value.exercises[i])) :
                        i \in 1..(IF parsed.kind = "return"
                                  THEN Len(parsed.value.exercises) ELSE 0)})

\* the exercises of the data the parse call returned
ParsedExercises == IF parsed.kind = "return" THEN parsed.value.exercises ELSE <<>>

\* the header names of a header line
HeaderNames(line) ==
    {WorkoutParser_parseCSVLine(line)[i] : i \in 1..Len(WorkoutParser_parseCSVLine(line))}

ScenarioALogs ==
    <<"2", "0", "x", "1", "0", ",", "7", "0", "x", "5", ",", "9", "0", "x", "5", ",",
      "1", "0", "0", "x", "5", ",", "1", "0", "0", "x", "4", ",", "1", "0", "0", "x", "3">>

ScenarioBTexts == {<<StrongLines.Header, StrongLines.Bench1, StrongLines.Bench2>>, <<StrongLines.Header, StrongLines.Bench2, StrongLines.Bench1>>}

\* C1: parse never raises on malformed content.  Whatever the input text (a
\* single-table text whose Date column is missing or unparsable, whose
\* header is not on the first line, or with truncated lines included), the
\* call returns data and does not end in an error.
C1_ParseNeverThrows == op = "parse" => ret.kind = "return"

\* C4: for every exercise of the data parse returned, in either format,
\* totalVolume equals the sum over its sets of weight times reps.
C4_TotalVolumeIsSumOfSets ==
    \A i \in 1..Len(ParsedExercises) :
        Get(ParsedExercises[i], K.totalVolume) = SumWeightReps(SetsOf(ParsedExercises[i]))

\* C5: within every exercise of the data parse returned, by either parser,
\* the setNumber values of its sets are 1, 2, ..., k in sequence order, also
\* when zero tokens were dropped and when single-table rows carry gaps,
\* duplicates or arrive out of order.
C5_SetNumbersContiguous ==
    \A i \in 1..Len(ParsedExercises) :
        \A j \in 1..Len(SetsOf(ParsedExercises[i])) :
            SetsOf(ParsedExercises[i])[j].setNumber = Num(j)

\* C7: parsing Scenario A (one settings row, one routine row, one
\* workout-day row, one exercise row with six set tokens, one session row
\* and one note row, each sub-table under its own header line, three of them
\* in the ROUTINES section) returns exactly 1 routine, 1 workout day, 1
\* exercise with 6 sets, 1 workout session and 1 note; every record carries
\* the columns of its own header line with the values of its data row, so no
\* header line is stored as a record and no data row is taken as a header.
C7_ScenarioACounts ==
    (given = ScenarioALines /\ parsed.kind # "none") =>
        /\ parsed.kind = "return"
        /\ Len(parsed.value.routines) = 1
        /\ Len(parsed.value.workoutDays) = 1
        /\ Len(parsed.value.exercises) = 1
        /\ Len(SetsOf(parsed.value.exercises[1])) = 6
        /\ Len(parsed.value.workoutSessions) = 1
        /\ Len(parsed.value.notes) = 1
        /\ Len(parsed.value.exerciseLogs) = 0
        /\ DOMAIN parsed.value.settings = HeaderNames(SampleCSV.SettingHeader)
        /\ DOMAIN parsed.value.routines[1] = HeaderNames(SampleCSV.RoutineHeader)
        /\ DOMAIN parsed.value.workoutDays[1] = HeaderNames(SampleCSV.DayHeader)
        /\ DOMAIN parsed.value.exercises[1] =
               HeaderNames(SampleCSV.ExerciseHeader) \cup {K.sets, K.totalSets, K.totalVolume}
        /\ DOMAIN parsed.value.workoutSessions[1] =
               HeaderNames(SampleCSV.SessionHeader) \cup {K.efficiency, K.avgWeightPerExercise}
        /\ DOMAIN parsed.value.notes[1] = HeaderNames(SampleCSV.NoteHeader)
        /\ parsed.value.routines[1][K.dayaweek] = Num(5)
        /\ parsed.value.workoutDays[1][K.dayIndex] = Num(1)
        /\ parsed.value.exercises[1][K.logs] = Str(ScenarioALogs)
        /\ parsed.value.workoutSessions[1][K.total_time] = Num(348)
        /\ parsed.value.notes[1][K.logTime] = Num(1708522640)

\* Scenario A has been parsed, and its exercise carries six sets
C7_Witness ==
    /\ given = ScenarioALines
    /\ op = "parse"
    /\ ret.kind = "return"
    /\ Len(ret.value.exercises) = 1
    /\ Len(ret.value.exercises[1][K.sets].a) = 6

\* C8 as the specification states it: the exercise parsed from the logs
\* "20x10,70x5,90x5,100x5,100x4,100x3" has totalVolume 1780.
C8_ScenarioAVolume1780 ==
    \A i \in 1..Len(ParsedExercises) :
        Get(ParsedExercises[i], K.logs) = Str(ScenarioALogs) =>
            Get(ParsedExercises[i], K.totalVolume) = Num(1780)

\* C8: the exercise parsed from the logs "20x10,70x5,90x5,100x5,100x4,100x3"
\* has totalVolume 20*10 + 70*5 + 90*5 + 100*5 + 100*4 + 100*3, which is 2200.
C8_ScenarioAVolume ==
    \A i \in 1..Len(ParsedExercises) :
        Get(ParsedExercises[i], K.logs) = Str(ScenarioALogs) =>
            Get(ParsedExercises[i], K.totalVolume)
                = Num(20 * 10 + 70 * 5 + 90 * 5 + 100 * 5 + 100 * 4 + 100 * 3)

\* the exercise row of Scenario A has been parsed and its volume is 2200
C8_Witness ==
    /\ given = ScenarioALines
    /\ op = "parse"
    /\ Len(ParsedExercises) = 1
    /\ ParsedExercises[1][K.logs] = Str(ScenarioALogs)
    /\ ParsedExercises[1][K.totalVolume] = Num(2200)

\* C9: parsing Scenario B (a single-table text with two rows of workout "1"
\* and exercise "Bench Press (Barbell)", weights 80 and 80, reps 8 and 6, set
\* orders 1 and 2, in either row order) with the multi-format parser returns
\* exactly 1 workout session and 1 exercise whose 2 sets are 8 reps at 80
\* then 6 reps at 80, with totalVolume 1120 and maxWeight 80.
C9_ScenarioB ==
    (cls = "MultiFormatWorkoutParser" /\ given \in ScenarioBTexts /\ parsed.kind # "none") =>
        /\ parsed.kind = "return"
        /\ Len(parsed.value.workoutSessions) = 1
        /\ Len(parsed.value.exercises) = 1
        /\ Len(SetsOf(parsed.value.exercises[1])) = 2
        /\ SetsOf(parsed.value.exercises[1])[1].weight = Num(80)
        /\ SetsOf(parsed.value.exercises[1])[1].reps = Num(8)
        /\ SetsOf(parsed.value.exercises[1])[2].weight = Num(80)
        /\ SetsOf(parsed.value.exercises[1])[2].reps = Num(6)
        /\ parsed.value.exercises[1][K.totalVolume] = Num(1120)
        /\ parsed.value.exercises[1][K.maxWeight] = Num(80)

\* Scenario B with the row of set order 2 first has been parsed by the
\* multi-format parser
C9_Witness ==
    /\ cls = "MultiFormatWorkoutParser"
    /\ given = <<StrongLines.Header, StrongLines.Bench2, StrongLines.Bench1>>
    /\ op = "parse"
    /\ ret.kind = "return"
    /\ Len(ret.value.exercises) = 1

\* C10: sets with weight <= 0 are never selected as a personal record.  In
\* the result of getPersonalRecords of either analyzer every record has a
\* weight above 0 (so an exercise whose sets all have weight <= 0 has no
\* entry), and for the sets [0 x 12, 20 x 5] the record is weight 20, reps 5.
C10_RecordsHavePositiveWeight ==
    (op \in {"WorkoutAnalyzer.getPersonalRecords", "EnhancedWorkoutAnalyzer.getPersonalRecords"}
        /\ ret.kind = "return") =>
        \A name \in DOMAIN ret.value : Gt(ret.value[name].weight, Num(0))

PersonalRecordOps ==
    {"WorkoutAnalyzer.getPersonalRecords", "EnhancedWorkoutAnalyzer.getPersonalRecords"}

\* the sets of the exercises called name, as pairs <<exercise, set>> of
\* positions in the parsed data
SetsNamed(name) ==
    {p \in (1..Len(ParsedExercises)) \X (1..MaxSetsOfExercise) :
        /\ Get(ParsedExercises[p[1]], K.exercisename) = name
        /\ p[2] <= Len(SetsOf(ParsedExercises[p[1]]))}

SetAt(p) == SetsOf(ParsedExercises[p[1]])[p[2]]

\* p comes before q in data order
Before(p, q) == p[1] < q[1] \/ (p[1] = q[1] /\ p[2] < q[2])

\* p is the first set of the greatest weight among the sets called name
FirstGreatest(name, p) ==
    \A q \in SetsNamed(name) :
        \/ Gt(SetAt(p).weight, SetAt(q).weight)
        \/ SetAt(q).weight = SetAt(p).weight /\ ~Before(q, p)

\* C11: for each exercise name, the weight of the personal record is the
\* greatest weight over all sets of all exercises of that name, and when
\* several sets share that weight the reps, volume and date of the record
\* are those of the first of them in data order.
C11_RecordIsFirstGreatestWeight ==
    (op \in PersonalRecordOps /\ ret.kind = "return") =>
        \A name \in DOMAIN ret.value :
            \E p \in SetsNamed(name) :
                /\ FirstGreatest(name, p)
                /\ ret.value[name].weight = SetAt(p).weight
                /\ ret.value[name].reps = SetAt(p).reps
                /\ ret.value[name].volume = SetAt(p).volume
                /\ ret.value[name].date = Get(ParsedExercises[p[1]], K.TIMESTAMP)

\* records were computed for a name that occurs in two exercises and whose
\* greatest weight is shared by sets of different reps
C11_Witness ==
    /\ op \in PersonalRecordOps
    /\ ret.kind = "return"
    /\ \E name \in DOMAIN ret.value :
           \E p \in SetsNamed(name), q \in SetsNamed(name), r \in SetsNamed(name) :
               /\ FirstGreatest(name, p)
               /\ Before(p, q)
               /\ SetAt(q).weight = SetAt(p).weight
               /\ SetAt(q).reps # SetAt(p).reps
               /\ r[1] # p[1]

-----------------------------------------------------------------------------
(* Specification SpecTokenize: one parseCSVLine call on a parser object of  *)
(* either class.  The line is up to MaxPieces fields joined by the          *)
(* separator passed to the call; each field is written plain or in quotes,  *)
(* with its content known: a separator or a doubled quote inside quotes     *)
(* (first, in the middle, last), an empty field, and one field whose        *)
(* opening quote is never closed.  WorkoutParser.parseCSVLine takes the     *)
(* line alone and splits on commas.                                         *)

MaxPieces == 2

FieldPieces ==
    {[text |-> <<"a">>, content |-> <<"a">>,
      quoted |-> FALSE, closed |-> TRUE],
     [text |-> <<>>, content |-> <<>>,
      quoted |-> FALSE, closed |-> TRUE],
     [text |-> <<" ", "a", " ">>, content |-> <<"a">>,
      quoted |-> FALSE, closed |-> TRUE],
     [text |-> <<"\"", "a", ",", "b", "\"">>, content |-> <<"a", ",", "b">>,
      quoted |-> TRUE, closed |-> TRUE],
     [text |-> <<"\"", "a", ";", "b", "\"">>, content |-> <<"a", ";", "b">>,
      quoted |-> TRUE, closed |-> TRUE],
     [text |-> <<"\"", "a", "\"", "\"", "b", "\"">>, content |-> <<"a", "\"", "b">>,
      quoted |-> TRUE, closed |-> TRUE],
     [text |-> <<"\"", "\"", "\"", "a", "\"">>, content |-> <<"\"", "a">>,
      quoted |-> TRUE, closed |-> TRUE],
     [text |-> <<"\"", "a", "\"", "\"", "\"">>, content |-> <<"a", "\"">>,
      quoted |-> TRUE, closed |-> TRUE],
     [text |-> <<"\"", "\"", "\"", "\"">>, content |-> <<"\"">>,
      quoted |-> TRUE, closed |-> TRUE],
     [text |-> <<"\"", "\"">>, content |-> <<>>,
      quoted |-> TRUE, closed |-> TRUE],
     [text |-> <<"\"", "a">>, content |-> <<"a">>,
      quoted |-> TRUE, closed |-> FALSE]}

\* the separator the call splits on
SeparatorOf(c, separator) == IF c = "MultiFormatWorkoutParser" THEN separator ELSE ","

InitTokenize ==
    /\ \E c \in ParserClasses : Constructed(c)
    /\ \E pieces \in SeqsUpTo(FieldPieces, MaxPieces) \ {<<>>}, separator \in {",", ";"} :
           /\ given = [pieces |-> pieces, separator |-> separator]
           /\ input = join([k \in 1..Len(pieces) |-> pieces[k].text], separator)

\* parser.parseCSVLine(input, separator)
Tokenize ==
    /\ op = "none"
    /\ op' = "parseCSVLine"
    /\ ret' = Returned(IF cls = "MultiFormatWorkoutParser"
                       THEN MultiFormat_parseCSVLine(input, given.separator)
                       ELSE WorkoutParser_parseCSVLine(input))
    /\ UNCHANGED <<cls, data, sectionHeaders, detectedFormat, input, parsed, calls, given>>

NextTokenize == Tokenize

SpecTokenize == InitTokenize /\ [][NextTokenize]_vars

\* the number of quote characters before position i of the line
QuotesBefore(line, i) == Cardinality({j \in 1..(i - 1) : line[j] = QUOTE})

\* the positions of the separators of the line outside quoted regions
SeparatorsOutsideQuotes(line, separator) ==
    {i \in 1..Len(line) : line[i] = separator /\ QuotesBefore(line, i) % 2 = 0}

\* every field of the line was written closed, and joined by the separator
\* the call splits on
WellFormedLine ==
    /\ \A k \in 1..Len(given.pieces) : given.pieces[k].closed
    /\ given.separator = SeparatorOf(cls, given.separator)

C14_DoubledQuoteDecodesToOneQuote ==
    (op = "parseCSVLine" /\ WellFormedLine) =>
        \A k \in 1..Len(given.pieces) :
            given.pieces[k].quoted => ret.value[k] = given.pieces[k].content

-----------------------------------------------------------------------------
(* Specification SpecAnalyze: one parse call on a newly constructed parser  *)
(* object of either class, then the operations of an analyzer of either     *)
(* class built on the data it returned.  The input is a WORKOUT SESSIONS    *)
(* section of up to MaxSessionRows session rows, the empty text, a         *)
(* single-table text (one of them the header alone), a ROUTINES section of  *)
(* exercise rows, or Scenario A.                                            *)

MaxSessionRows == 3

SessionInputs ==
    {<<SessionLines.Marker, SessionLines.Header>> \o rows :
        rows \in SeqsUpTo({SessionLines.First, SessionLines.SecondLater, SessionLines.Day3,
                          SessionLines.Day6, SessionLines.BlankStart, SessionLines.NoStart,
                          SessionLines.TextStart},
                         MaxSessionRows)}

AnalyzeInputs ==
    SessionInputs
        \cup {<<>>,
              <<StrongLines.Header>>,
              <<StrongLines.Header, StrongLines.Bench1, StrongLines.Bench3Later>>,
              <<StrongLines.Header, StrongLines.Running, StrongLines.PullUp>>,
              <<ExerciseLines.Marker, ExerciseLines.Header, ExerciseLines.Deadlift6,
                ExerciseLines.PlankLogs0>>,
              ScenarioALines}

InitAnalyze ==
    /\ \E c \in ParserClasses : Constructed(c)
    /\ given \in AnalyzeInputs
    /\ input = join(given, "\n")

\* new a(parsedData).getWorkoutConsistency() on the data the parse returned
GetWorkoutConsistency(a) ==
    /\ parsed.kind = "return"
    /\ op' = (IF a = "EnhancedWorkoutAnalyzer"
              THEN "EnhancedWorkoutAnalyzer.getWorkoutConsistency"
              ELSE "WorkoutAnalyzer.getWorkoutConsistency")
    /\ ret' = getWorkoutConsistency(a, parsed.value)
    /\ UNCHANGED <<cls, data, sectionHeaders, detectedFormat, input, parsed, calls, given>>

\* the exercise names asked for: those of the parsed data and one more
ProgressNames ==
    {Get(ParsedExercises[i], K.exercisename) : i \in 1..Len(ParsedExercises)}
        \cup {Str(<<"P", "l", "a", "n", "k">>)}

\* new a(parsedData).getExerciseProgress(exerciseName)
GetExerciseProgress(a, exerciseName) ==
    /\ parsed.kind = "return"
    /\ op' = (IF a = "EnhancedWorkoutAnalyzer"
              THEN "EnhancedWorkoutAnalyzer.getExerciseProgress"
              ELSE "WorkoutAnalyzer.getExerciseProgress")
    /\ ret' = getExerciseProgress(a, parsed.value, exerciseName)
    /\ UNCHANGED <<cls, data, sectionHeaders, detectedFormat, input, parsed, calls, given>>

\* new EnhancedWorkoutAnalyzer(parsedData).getCardioExercises()
GetCardioExercises ==
    /\ parsed.kind = "return"
    /\ op' = "EnhancedWorkoutAnalyzer.getCardioExercises"
    /\ ret' = getCardioExercises(parsed.value)
    /\ UNCHANGED <<cls, data, sectionHeaders, detectedFormat, input, parsed, calls, given>>

\* new EnhancedWorkoutAnalyzer(parsedData).getStrengthExercises()
GetStrengthExercises ==
    /\ parsed.kind = "return"
    /\ op' = "EnhancedWorkoutAnalyzer.getStrengthExercises"
    /\ ret' = getStrengthExercises(parsed.value)
    /\ UNCHANGED <<cls, data, sectionHeaders, detectedFormat, input, parsed, calls, given>>

NextAnalyze ==
    \/ \E now \in Clock : ParseInput(now)
    \/ \E a \in AnalyzerClasses : GetPersonalRecords(a)
    \/ \E a \in AnalyzerClasses : GetWorkoutConsistency(a)
    \/ \E a \in AnalyzerClasses, exerciseName \in ProgressNames :
           GetExerciseProgress(a, exerciseName)
    \/ GetCardioExercises
    \/ GetStrengthExercises

SpecAnalyze == InitAnalyze /\ [][NextAnalyze]_vars

-----------------------------------------------------------------------------
(* Claims on the analyzers (SpecAnalyze) *)

ConsistencyOps ==
    {"WorkoutAnalyzer.getWorkoutConsistency", "EnhancedWorkoutAnalyzer.getWorkoutConsistency"}

\* the sessions of the parsed data
ParsedSessions == IF parsed.kind = "return" THEN parsed.value.workoutSessions ELSE <<>>

\* the start times, in seconds, of the sessions that have a valid one: a
\* number
ValidStarts ==
    SelectSeq([i \in 1..Len(ParsedSessions) |-> Get(ParsedSessions[i], K.starttime)],
              LAMBDA x : x.t = "num")

\* the orders in which the valid start times ascend
AscendingOrders ==
    {order \in [1..Len(ValidStarts) -> 1..Len(ValidStarts)] :
        /\ \A i, j \in 1..Len(ValidStarts) : i # j => order[i] # order[j]
        /\ \A i \in 1..(Len(ValidStarts) - 1) :
               ValidStarts[order[i]].v <= ValidStarts[order[i + 1]].v}

\* the whole-day gaps between consecutive start times in the order given:
\* the elapsed seconds / 86400, rounded up
DayGaps(order) ==
    [i \in 1..(Len(ValidStarts) - 1) |->
        0 - ((ValidStarts[order[i]].v - ValidStarts[order[i + 1]].v) \div 86400)]

\* C12: getWorkoutConsistency returns no result if and only if fewer than 2
\* sessions have a valid start time; otherwise, for n such sessions in any
\* input order, totalGaps = n - 1 and minGap, maxGap and the rounded
\* averageGap are those of the whole-day gaps between consecutive start
\* times in ascending order, so minGap <= averageGap <= maxGap.
C12_ConsistencyOverValidStartTimes ==
    (op \in ConsistencyOps /\ ret.kind = "return") =>
        /\ ret.value = Null <=> Len(ValidStarts) < 2
        /\ ret.value # Null =>
               \A order \in AscendingOrders :
                   LET gaps == DayGaps(order)
                       range == {gaps[i] : i \in 1..Len(gaps)}
                   IN  /\ ret.value.totalGaps = Num(Len(ValidStarts) - 1)
                       /\ range # {}
                       /\ ret.value.minGap = Num(SetMin(range))
                       /\ ret.value.maxGap = Num(SetMax(range))
                       /\ 2 * Len(gaps) * ret.value.averageGap.v - Len(gaps)
                              <= 2 * SumGaps(gaps)
                       /\ 2 * SumGaps(gaps)
                              < 2 * Len(gaps) * ret.value.averageGap.v + Len(gaps)
                       /\ ret.value.minGap.v <= ret.value.averageGap.v
                       /\ ret.value.averageGap.v <= ret.value.maxGap.v

\* every collection of the parsed data is empty
EmptyCollections ==
    /\ parsed.kind = "return"
    /\ parsed.value.routines = <<>>
    /\ parsed.value.workoutDays = <<>>
    /\ parsed.value.exercises = <<>>
    /\ parsed.value.workoutSessions = <<>>
    /\ parsed.value.exerciseLogs = <<>>
    /\ parsed.value.notes = <<>>

\* C15: analyzer operations on data whose collections are empty return
\* empty or absent results and never raise.  getPersonalRecords returns an
\* empty mapping, getExerciseProgress an empty sequence,
\* getWorkoutConsistency no result, getCardioExercises and
\* getStrengthExercises empty sequences.
C15_EmptyDataGivesEmptyResults ==
    (EmptyCollections /\ op \notin {"none", "parse"}) =>
        /\ ret.kind = "return"
        /\ op \in PersonalRecordOps => ret.value = EmptyObj
        /\ op \in ConsistencyOps => ret.value = Null
        /\ op \notin PersonalRecordOps \cup ConsistencyOps => ret.value = <<>>

\* an analyzer operation has returned on empty data of the single-table
\* format
C15_Witness ==
    /\ EmptyCollections
    /\ formatOf(parsed.value) = "strong"
    /\ op = "EnhancedWorkoutAnalyzer.getWorkoutConsistency"
    /\ ret.kind = "return"

-----------------------------------------------------------------------------
(* Specification Spec: up to MaxCalls parse calls, each on one of the texts  *)
(* of CallTexts, on one parser object of either class.                      *)

MaxCalls == 2

CallTexts ==
    {ScenarioALines,
     <<ExerciseLines.Marker, ExerciseLines.Header, ExerciseLines.Deadlift6>>,
     <<ExerciseLines.Marker, ExerciseLines.Header, ExerciseLines.PushUpBodyweight, ExerciseLines.GobletSquat>>,
     <<StrongLines.Header, StrongLines.Bench2, StrongLines.Bench1>>,
     <<StrongLines.Header, StrongLines.Running, StrongLines.PullUp>>,
     <<ExerciseLines.Marker, ExerciseLines.Header, ExerciseLines.DeadliftZeroFirst>>,
     <<StrongLines.Header, StrongLines.Bench3Later>>,
     <<>>}

Init ==
    /\ \E c \in ParserClasses : Constructed(c)
    /\ given = <<>>
    /\ input = <<>>

\* parser.parse(join(lines, "\n")) at the instant now
Parse(lines, now) ==
    /\ calls < MaxCalls
    /\ given' = lines
    /\ input' = join(lines, "\n")
    /\ \E r \in {parse(cls, data, sectionHeaders, detectedFormat, join(lines, "\n"), now)} :
           /\ data' = r.data
           /\ sectionHeaders' = r.sectionHeaders
           /\ detectedFormat' = r.detectedFormat
           /\ ret' = r.outcome
           /\ parsed' = r.outcome
    /\ op' = "parse"
    /\ calls' = calls + 1
    /\ UNCHANGED cls

Next == \E lines \in CallTexts, now \in Clock : Parse(lines, now)

Spec == Init /\ [][Next]_vars

\* the data parse returns for the text csvContent on a newly constructed
\* parser object of class c
FreshParse(c, csvContent, now) == parse(c, NewData, EmptyObj, "null", csvContent, now).outcome

\* C2: each parse call works on a fresh data model.  In any sequence of
\* parse calls on one parser object, the data a call returns holds only what
\* that call's input gives: it equals the data a newly constructed parser
\* returns for the same text.
C2_FreshDataPerCall ==
    op = "parse" => \E now \in Clock : ret = FreshParse(cls, input, now)

-----------------------------------------------------------------------------
(* Specification SpecSections: one parse call on a newly constructed parser *)
(* object of either class, on a multi-section text.  The text is a SETTING  *)
(* section of one row followed by one more section: a NOTES section of up   *)
(* to MaxBodyLines lines (header lines, data rows, of which two hold the    *)
(* letters "id" and "time", blank lines, and runs of "#"), a section under  *)
(* one of the markers of MarkerPalette with one header and one row, or a    *)
(* ROUTINES section with one of the header and row pairs of RoutineTables, *)
(* or up to MaxSettingRows more rows of the SETTING section.                *)

MaxBodyLines == 3

SectionLines ==
    [SettingMarker |-> <<"#", "#", "#", " ", "S", "E", "T", "T", "I", "N", "G", " ", "#", "#", "#", "#",
              "#", "#", "#", "#", "#", "#">>,
     SettingHeader |-> <<"r", "o", "w", "_", "i", "d", ",", "g", "e", "n", "d", "e", "r", ",", "t", "a",
              "r", "g", "e", "t", "r", "e", "p">>,
     SettingRow |-> <<"1", ",", "M", ",", "8">>,
     NotesMarker |-> <<"#", "#", "#", " ", "N", "O", "T", "E", "S", " ", "#", "#", "#", "#", "#", "#",
              "#", "#", "#", "#", "#", "#", "#">>,
     RoutinesMarker |-> <<"#", "#", "#", " ", "R", "O", "U", "T", "I", "N", "E", "S", " ", "#", "#", "#",
              "#", "#", "#", "#", "#", "#">>,
     MarkedHeader |-> <<"r", "o", "w", "_", "i", "d", ",", "d", "i", "f", "f", "i", "c", "u", "l", "t",
              "y", ",", "e", "x", "e", "r", "c", "i", "s", "e", "n", "a", "m", "e", ",", "l",
              "o", "g", "s">>,
     MarkedRow |-> <<"7", ",", "0", ",", "S", "q", "u", "a", "t", ",", "2", "0", "x", "5">>]

\* the lines of a section after its marker, each with what it is written as
BodyLinePalette ==
    {[text |-> <<"r", "o", "w", "_", "i", "d", ",", "m", "y", "n", "o", "t", "e", ",", "t", "i",
              "t", "l", "e">>,
      kind |-> "header"],
     [text |-> <<"2", ",", "F", "e", "l", "t", " ", "s", "t", "r", "o", "n", "g", ",", "S", "q",
              "u", "a", "t">>,
      kind |-> "row"],
     [text |-> <<"3", ",", "W", "i", "d", "e", " ", "g", "r", "i", "p", ",", "B", "e", "n", "c",
              "h", " ", "P", "r", "e", "s", "s">>,
      kind |-> "row"],
     [text |-> <<"4", ",", "O", "v", "e", "r", "t", "i", "m", "e", " ", "s", "e", "t", ",", "D",
              "e", "a", "d", "l", "i", "f", "t">>,
      kind |-> "row"],
     [text |-> <<>>,
      kind |-> "blank"],
     [text |-> <<"#", "#", "#", "#", "#", "#", "#", "#", "#", "#", "#", "#", "#", "#", "#", "#",
              "#", "#", "#", "#", "#", "#">>,
      kind |-> "separator"],
     [text |-> <<"#", "#", "#", "#", "#">>,
      kind |-> "separator"]}

\* section markers, each with the keywords its text holds in some casing
MarkerPalette ==
    {[text |-> <<"#", "#", "#", " ", "S", "E", "T", "T", "I", "N", "G", " ", "#", "#", "#", "#",
              "#", "#", "#", "#", "#", "#">>,
      keywords |-> {"setting"}],
     [text |-> <<"#", "#", "#", " ", "R", "o", "u", "t", "i", "n", "e", "s", " ", "#", "#", "#">>,
      keywords |-> {"routine"}],
     [text |-> <<"#", "#", "#", " ", "W", "O", "R", "K", "O", "U", "T", " ", "S", "E", "S", "S",
              "I", "O", "N", "S", " ", "#", "#", "#", "#">>,
      keywords |-> {"workout session"}],
     [text |-> <<"#", "#", "#", " ", "n", "o", "t", "e", "s", " ", "#", "#", "#">>,
      keywords |-> {"notes"}],
     [text |-> <<"#", "#", "#", " ", "E", "X", "E", "R", "C", "I", "S", "E", " ", "L", "O", "G",
              " ", "#", "#", "#">>,
      keywords |-> {}],
     [text |-> <<"#", "#", "#", " ", "R", "O", "U", "T", "I", "N", "E", " ", "S", "E", "T", "T",
              "I", "N", "G", "S", " ", "#", "#", "#">>,
      keywords |-> {"setting", "routine"}],
     [text |-> <<"#", "#", "#", " ", "W", "o", "r", "k", "o", "u", "t", " ", "S", "e", "s", "s",
              "i", "o", "n", " ", "N", "o", "t", "e", "s", " ", "#", "#", "#">>,
      keywords |-> {"workout session", "notes"}],
     [text |-> <<"#", "#", "#", " ", "N", "o", "t", "e", "s", " ", "o", "f", " ", "t", "h", "e",
              " ", "r", "o", "u", "t", "i", "n", "e", " ", "#", "#", "#">>,
      keywords |-> {"routine", "notes"}]}

\* a header line and a data row of the ROUTINES section, with the fields
\* among difficulty, focus, day, dayIndex and exercisename the row carries
RoutineTables ==
    {[header |-> <<"r", "o", "w", "_", "i", "d", ",", "d", "i", "f", "f", "i", "c", "u", "l", "t",
              "y", ",", "d", "a", "y", ",", "e", "x", "e", "r", "c", "i", "s", "e", "n", "a",
              "m", "e", ",", "l", "o", "g", "s">>,
      row |-> <<"7", ",", "0", ",", "1", ",", "S", "q", "u", "a", "t", ",", "2", "0", "x", "5">>,
      carries |-> {"difficulty", "day", "exercisename"}],
     [header |-> <<"r", "o", "w", "_", "i", "d", ",", "f", "o", "c", "u", "s", ",", "d", "a", "y",
              "I", "n", "d", "e", "x">>,
      row |-> <<"7", ",", "0", ",", "1">>,
      carries |-> {"focus", "dayIndex"}],
     [header |-> <<"r", "o", "w", "_", "i", "d", ",", "d", "a", "y", ",", "e", "x", "e", "r", "c",
              "i", "s", "e", "n", "a", "m", "e", ",", "l", "o", "g", "s">>,
      row |-> <<"7", ",", "1", ",", "S", "q", "u", "a", "t", ",", "2", "0", "x", "5">>,
      carries |-> {"day", "exercisename"}],
     [header |-> <<"r", "o", "w", "_", "i", "d", ",", "d", "a", "y", "I", "n", "d", "e", "x">>,
      row |-> <<"7", ",", "1">>,
      carries |-> {"dayIndex"}],
     [header |-> <<"r", "o", "w", "_", "i", "d", ",", "e", "x", "e", "r", "c", "i", "s", "e", "n",
              "a", "m", "e", ",", "l", "o", "g", "s">>,
      row |-> <<"7", ",", "S", "q", "u", "a", "t", ",", "2", "0", "x", "5">>,
      carries |-> {"exercisename"}],
     [header |-> <<"r", "o", "w", "_", "i", "d", ",", "b", "o", "d", "y", "p", "a", "r", "t">>,
      row |-> <<"7", ",", "L", "e", "g", "s">>,
      carries |-> {}],
     [header |-> <<"r", "o", "w", "_", "i", "d", ",", "e", "x", "e", "r", "c", "i", "s", "e", "n",
              "a", "m", "e", ",", "l", "o", "g", "s", ",", "d", "i", "f", "f", "i", "c", "u",
              "l", "t", "y">>,
      row |-> <<"7", ",", "S", "q", "u", "a", "t", ",", "2", "0", "x", "5">>,
      carries |-> {"exercisename"}],
     [header |-> <<"r", "o", "w", "_", "i", "d", ",", "e", "x", "e", "r", "c", "i", "s", "e", "n",
              "a", "m", "e", ",", "l", "o", "g", "s", ",", "d", "i", "f", "f", "i", "c", "u",
              "l", "t", "y">>,
      row |-> <<"7", ",", "S", "q", "u", "a", "t", ",", "2", "0", "x", "5", ",">>,
      carries |-> {"exercisename", "difficulty"}],
     [header |-> <<"r", "o", "w", "_", "i", "d", ",", "d", "a", "y", ",", "f", "o", "c", "u", "s">>,
      row |-> <<"7", ",", "1">>,
      carries |-> {"day"}]}

SettingSection ==
    <<SectionLines.SettingMarker, SectionLines.SettingHeader, SectionLines.SettingRow>>

\* data rows of the SETTING section, each with the values of its fields: a
\* full row, rows that end before the last column, a row with an empty
\* field, and a row with a name that holds the letters "id"
MaxSettingRows == 2

SettingRowPalette ==
    {[text |-> <<"2", ",", "F", ",", "1", "0">>,
      values |-> <<Num(2), Str(<<"F">>), Num(10)>>],
     [text |-> <<"3", ",", "F">>,
      values |-> <<Num(3), Str(<<"F">>)>>],
     [text |-> <<"4">>,
      values |-> <<Num(4)>>],
     [text |-> <<"5", ",", ",", "1", "2">>,
      values |-> <<Num(5), Str(<<>>), Num(12)>>],
     [text |-> <<"6", ",", "D", "a", "v", "i", "d", ",", "9">>,
      values |-> <<Num(6), Str(<<"D", "a", "v", "i", "d">>), Num(9)>>]}

SectionInputs ==
    {[kind |-> "body", body |-> body] : body \in SeqsUpTo(BodyLinePalette, MaxBodyLines)}
        \cup {[kind |-> "marker", marker |-> marker] : marker \in MarkerPalette}
        \cup {[kind |-> "routing", table |-> table] : table \in RoutineTables}
        \cup {[kind |-> "settings", rows |-> rows] :
                  rows \in SeqsUpTo(SettingRowPalette, MaxSettingRows)}

\* the lines of the text of an input
SectionText(in) ==
    SettingSection \o
        (CASE in.kind = "body" ->
                  <<SectionLines.NotesMarker>> \o [k \in 1..Len(in.body) |-> in.body[k].text]
           [] in.kind = "marker" ->
                  <<in.marker.text, SectionLines.MarkedHeader, SectionLines.MarkedRow>>
           [] in.kind = "routing" ->
                  <<SectionLines.RoutinesMarker, in.table.header, in.table.row>>
           [] in.kind = "settings" ->
                  [k \in 1..Len(in.rows) |-> in.rows[k].text])

InitSections ==
    /\ \E c \in ParserClasses : Constructed(c)
    /\ given \in SectionInputs
    /\ input = join(SectionText(given), "\n")

NextSections == \E now \in Clock : ParseInput(now)

SpecSections == InitSections /\ [][NextSections]_vars

-----------------------------------------------------------------------------
(* Claims on the sections of a multi-section text (SpecSections) *)

\* what parse returns on a new parser object of the class at hand for the
\* text of an input (no instant is read in the multi-section format)
ParseOfInput(in) ==
    FreshParse(cls, join(SectionText(in), "\n"), CHOOSE now \in Clock : TRUE)

\* the body without the lines at the positions of drop
Remaining(body, drop) ==
    LET kept == SelectSeq([k \in 1..Len(body) |-> k], LAMBDA k : k \notin drop)
    IN  [j \in 1..Len(kept) |-> body[kept[j]]]

\* the data rows of the NOTES section before its first header line
RowsBeforeHeader(body) ==
    {k \in 1..Len(body) :
        body[k].kind = "row" /\ \A j \in 1..(k - 1) : body[j].kind # "header"}

\* C16: on every section-marker line the active header is reset.  A data
\* line that follows a section marker before any header line of the new
\* section is not zipped against a header of an earlier section and adds no
\* record: the data returned is that of the text without such lines.
C16_MarkerResetsHeader ==
    (op = "parse" /\ given.kind = "body") =>
        ret = ParseOfInput([given EXCEPT !.body = Remaining(@, RowsBeforeHeader(@))])

\* C17: within a section only the first line that matches the header
\* heuristic is captured as the header; every later non-blank, non-marker
\* line of the section is data, zipped against that header and stored in
\* the collection of the section, also when one of its fields is a column
\* name or holds "time" or "id".
C17_OnlyFirstHeaderCaptured ==
    (/\ op = "parse"
     /\ given.kind = "body"
     /\ given.body # <<>>
     /\ given.body[1].kind = "header"
     /\ \A k \in 1..Len(given.body) : given.body[k].kind # "separator") =>
        /\ ret.kind = "return"
        /\ Len(ret.value.notes) =
               Cardinality({k \in 2..Len(given.body) : given.body[k].kind # "blank"})
        /\ \A j \in 1..Len(ret.value.notes) :
               DOMAIN ret.value.notes[j] \subseteq HeaderNames(given.body[1].text)

\* C18: blank lines and separator lines (a run of "#" that is no section
\* marker, whatever its length) are discarded.  They leave the current
\* section and the active header as they are and add no record: the data
\* returned is that of the text without them.
C18_BlankAndSeparatorLinesDiscarded ==
    (op = "parse" /\ given.kind = "body") =>
        ret = ParseOfInput([given EXCEPT !.body =
                  Remaining(@, {k \in 1..Len(@) : @[k].kind \in {"blank", "separator"}})])

\* the section kind of a marker that holds the keywords kw
KindOfKeywords(kw) ==
    IF "setting" \in kw THEN "settings"
    ELSE IF "routine" \in kw THEN "routines"
    ELSE IF "workout session" \in kw THEN "workoutSessions"
    ELSE IF "notes" \in kw THEN "notes"
    ELSE "unknown"

\* 1 when the two kinds are the same, else 0
OneIf(kind, expected) == IF kind = expected THEN 1 ELSE 0

\* C19: a section-marker line sets the current section kind by a
\* case-insensitive keyword match in fixed priority order: "setting" gives
\* settings, else "routine" routines, else "workout session"
\* workoutSessions, else "notes" notes, else unknown.  The header and the
\* row after the marker are stored under that kind; a marker that is not
\* recognized does not abort the parse and does not leave the section
\* before it current.
C19_SectionKindByKeywordPriority ==
    (op = "parse" /\ given.kind = "marker") =>
        LET kind == KindOfKeywords(given.marker.keywords)
        IN  /\ ret.kind = "return"
            /\ DOMAIN sectionHeaders = {"settings", kind}
            /\ sectionHeaders[kind] = WorkoutParser_parseCSVLine(SectionLines.MarkedHeader)
            /\ K.difficulty \in DOMAIN ret.value.settings <=> kind = "settings"
            /\ HeaderNames(SectionLines.SettingHeader) \subseteq DOMAIN ret.value.settings
            /\ Len(ret.value.routines) = OneIf(kind, "routines")
            /\ Len(ret.value.workoutSessions) = OneIf(kind, "workoutSessions")
            /\ Len(ret.value.notes) = OneIf(kind, "notes")
            /\ Len(ret.value.exerciseLogs) = OneIf(kind, "unknown")
            /\ ret.value.workoutDays = <<>>
            /\ ret.value.exercises = <<>>

\* a text whose second marker holds two keywords, and one whose second
\* marker holds none, have been parsed
C19_Witness ==
    /\ op = "parse"
    /\ given.kind = "marker"
    /\ ret.kind = "return"
    /\ \/ /\ given.marker.keywords = {"setting", "routine"}
          /\ K.difficulty \in DOMAIN ret.value.settings
       \/ /\ given.marker.keywords = {}
          /\ Len(ret.value.exerciseLogs) = 1

\* the collection a record of the ROUTINES section goes to, by the fields it
\* carries
CollectionOf(carries) ==
    IF carries \cap {"difficulty", "focus"} # {} THEN "routines"
    ELSE IF carries \cap {"day", "dayIndex"} # {} THEN "workoutDays"
    ELSE IF "exercisename" \in carries THEN "exercises"
    ELSE "none"

\* C20: a record of the routines section is added to exactly one collection
\* chosen in priority order: Routine if it carries a difficulty or focus
\* field, else WorkoutDay if it carries a day or dayIndex field, else
\* Exercise (decoded through the set-log parser) if it carries an
\* exercisename field, and to none if it carries none of these; all other
\* collections and the settings are unchanged by the record.
C20_RoutinesRecordRouting ==
    (op = "parse" /\ given.kind = "routing") =>
        LET collection == CollectionOf(given.table.carries)
        IN  /\ ret.kind = "return"
            /\ Len(ret.value.routines) = OneIf(collection, "routines")
            /\ Len(ret.value.workoutDays) = OneIf(collection, "workoutDays")
            /\ Len(ret.value.exercises) = OneIf(collection, "exercises")
            /\ collection = "exercises" =>
                   /\ Len(SetsOf(ret.value.exercises[1])) = 1
                   /\ SetsOf(ret.value.exercises[1])[1].weight = Num(20)
                   /\ SetsOf(ret.value.exercises[1])[1].reps = Num(5)
            /\ ret.value.workoutSessions = <<>>
            /\ ret.value.exerciseLogs = <<>>
            /\ ret.value.notes = <<>>
            /\ ret.value.settings =
                   FreshParse(cls, join(SettingSection, "\n"),
                              CHOOSE now \in Clock : TRUE).value.settings

\* a row that carries an exercisename field and, being short, no
\* difficulty field of its header has been stored as an exercise
C20_Witness ==
    /\ op = "parse"
    /\ given.kind = "routing"
    /\ given.table.carries = {"exercisename"}
    /\ includes(given.table.header, <<"d", "i", "f", "f">>)
    /\ ret.kind = "return"
    /\ Len(ret.value.exercises) = 1

\* the columns of the SETTING section and the values of its rows, the first
\* row "1,M,8" included
SettingColumns == WorkoutParser_parseCSVLine(SectionLines.SettingHeader)

SettingRowValues(rows) ==
    <<<<Num(1), Str(<<"M">>), Num(8)>>>> \o [k \in 1..Len(rows) |-> rows[k].values]

\* the rows that supply the column at position p
Suppliers(values, p) == {k \in 1..Len(values) : Len(values[k]) >= p}

\* C21: settings are last-write-wins.  After any sequence of data rows of
\* the settings section the Settings map holds for each key the value of
\* the latest row that supplied the key, and keeps the keys that only
\* earlier rows supplied; the rows add no entry to any other collection.
C21_SettingsLastWriteWins ==
    (op = "parse" /\ given.kind = "settings") =>
        LET values == SettingRowValues(given.rows)
        IN  /\ ret.kind = "return"
            /\ DOMAIN ret.value.settings =
                   {SettingColumns[p] : p \in 1..Len(SettingColumns)}
            /\ \A p \in 1..Len(SettingColumns) :
                   ret.value.settings[SettingColumns[p]] =
                       values[SetMax(Suppliers(values, p))][p]
            /\ ret.value.routines = <<>>
            /\ ret.value.workoutDays = <<>>
            /\ ret.value.exercises = <<>>
            /\ ret.value.workoutSessions = <<>>
            /\ ret.value.exerciseLogs = <<>>
            /\ ret.value.notes = <<>>

-----------------------------------------------------------------------------
(* Claims on the delimiter and the numbers of the set-log decoder           *)
(* (SpecSetLogs)                                                            *)

\* the logs string with each upper-case delimiter written in lower case
LowerDelimiter(logsString) ==
    [i \in 1..Len(logsString) |-> IF logsString[i] = "X" THEN "x" ELSE logsString[i]]

\* C26: the set-log decoder treats the "x" delimiter case-insensitively.
\* A token "wXr" decodes to the same Set (weight, reps and volume) as
\* "wxr": the result for a logs string is that for the string with its
\* delimiters in lower case.
C26_DelimiterCaseInsensitive ==
    op = "parseSetLogs" => ret = Returned(parseSetLogs(LowerDelimiter(input)))

\* C27: every Set the set-log decoder produces has an integer reps >= 0
\* and a weight >= 0.  A fractional reps text is truncated to its integer
\* part, and the volume is the weight times the truncated reps.
C27_RepsAreIntegers ==
    (op = "parseSetLogs" /\ LowerTokens(given)) =>
        LET kept == SelectSeq(given, NonZeroToken)
            sets == ret.value
        IN  /\ ret.kind = "return"
            /\ Len(sets) = Len(kept)
            /\ \A i \in 1..Len(sets) :
                  /\ sets[i].reps = Num(kept[i].r \div 10)
                  /\ IsNum(sets[i].weight)
                  /\ Tenths(sets[i].weight) >= 0
                  /\ sets[i].volume = Mul(sets[i].weight, Num(kept[i].r \div 10))

-----------------------------------------------------------------------------
(* The tokenizer pass by pass (SpecScan): parseCSVLine is entered on a     *)
(* line of InitTokenize, each pass of its while loop is one step on the    *)
(* locals i, inQuotes, current and result (held in parsed), and the call   *)
(* returns when i has reached the length of the line.  The loop of a call  *)
(* that has been entered keeps running (weak fairness of the steps).       *)

\* const result = []; let current = ''; let inQuotes = false; let i = 0
ScanEnter ==
    /\ op = "none"
    /\ op' = "scanning"
    /\ parsed' = [i |-> 1, inQuotes |-> FALSE, current |-> <<>>, result |-> <<>>]
    /\ UNCHANGED <<cls, data, sectionHeaders, detectedFormat, input, ret, calls, given>>

\* while (i < line.length) { ... }: one pass
ScanPass ==
    /\ op = "scanning"
    /\ parsed.i <= Len(input)
    /\ parsed' = ScanStep(input, SeparatorOf(cls, given.separator), parsed.i, parsed)
    /\ UNCHANGED <<cls, data, sectionHeaders, detectedFormat, input, ret, op, calls, given>>

\* the end of the loop: result.push(...current...); return result
ScanReturn ==
    /\ op = "scanning"
    /\ parsed.i > Len(input)
    /\ op' = "parseCSVLine"
    /\ ret' = Returned(LET currents == Append(parsed.result, parsed.current)
                       IN  [k \in 1..Len(currents) |->
                               IF cls = "MultiFormatWorkoutParser"
                               THEN trim(StripQuotes(currents[k]))
                               ELSE trim(currents[k])])
    /\ UNCHANGED <<cls, data, sectionHeaders, detectedFormat, input, parsed, calls, given>>

NextScan == ScanEnter \/ ScanPass \/ ScanReturn

SpecScan == InitTokenize /\ [][NextScan]_vars /\ WF_vars(NextScan)

\* the line ends inside a quoted region: the field at position k was written
\* with an opening quote and no closing quote, the fields before it are
\* closed and those after it hold no quote
UnterminatedAt(k) ==
    /\ k \in 1..Len(given.pieces)
    /\ ~given.pieces[k].closed
    /\ \A j \in 1..(k - 1) : given.pieces[j].closed
    /\ \A j \in (k + 1)..Len(given.pieces) : ~given.pieces[j].quoted
    /\ given.separator = SeparatorOf(cls, given.separator)

\* the rest of the line after the opening quote of the field at position k
RestOfLine(k) ==
    join(<<given.pieces[k].content>> \o
             [j \in 1..(Len(given.pieces) - k) |-> given.pieces[k + j].text],
         given.separator)

\* the call has returned the fields of the line
ScanReturned == op = "parseCSVLine" /\ ret.kind = "return"

\* C28: the tokenizer terminates on every line, also on a line with an
\* opening quote that is never closed or with an odd number of quotes.  It
\* raises no error, each pass of its loop consumes the one or two
\* characters it stands on and never goes back, and the call returns the
\* fields accumulated so far with the rest of the line as the last field.
C28_TokenizerTerminates ==
    /\ [][(op = "scanning" /\ op' = "scanning") =>
              /\ parsed'.i \in {parsed.i + 1, parsed.i + 2}
              /\ parsed'.i <= Len(input) + 1]_vars
    /\ [](ScanReturned =>
              \A k \in 1..Len(given.pieces) :
                  UnterminatedAt(k) =>
                      /\ Len(ret.value) = k
                      /\ ret.value[k] = trim(RestOfLine(k))
                      /\ \A j \in 1..(k - 1) :
                             ~given.pieces[j].quoted =>
                                 ret.value[j] = given.pieces[j].content)
    /\ <>ScanReturned

\* a line of two fields whose first field opens a quote that is never
\* closed has been returned as one field that holds the separator
C28_Witness ==
    /\ ScanReturned
    /\ Len(given.pieces) = 2
    /\ UnterminatedAt(1)
    /\ Len(ret.value) = 1
    /\ includes(ret.value[1], <<given.separator>>)

-----------------------------------------------------------------------------
(* Claim on getSummary after parse (SpecParse) *)

\* the sets of all exercises of the parsed data, each as <<exercise, set>>
AllSets(parsedData) ==
    UNION {{<<i, j>> : j \in 1..Len(SetsOf(parsedData.exercises[i]))} :
               i \in 1..Len(parsedData.exercises)}

\* C29: after MultiFormatWorkoutParser.parse(text), getSummary() called on
\* the same parser as the next step summarizes the data parse has just
\* returned, for both formats: totalWorkouts, totalExercises, totalSets and
\* totalVolume are the counts and sums of the sessions and exercises of
\* the returned data.
C29_SummaryOfReturnedData ==
    (op = "getSummary" /\ cls = "MultiFormatWorkoutParser") =>
        LET exercises == parsed.value.exercises
        IN  /\ ret.kind = "return"
            /\ ret.value.totalWorkouts = Num(Len(parsed.value.workoutSessions))
            /\ ret.value.totalExercises = Num(Len(exercises))
            /\ ret.value.totalSets = Num(Cardinality(AllSets(parsed.value)))
            /\ IsNum(ret.value.totalVolume)
            /\ Tenths(ret.value.totalVolume) =
                   SumGaps([i \in 1..Len(exercises) |->
                               Tenths(SumWeightReps(SetsOf(exercises[i])))])

-----------------------------------------------------------------------------
(* Claim on the operations of EnhancedWorkoutAnalyzer (SpecAnalyze) *)

EnhancedOps ==
    {"EnhancedWorkoutAnalyzer.getPersonalRecords",
     "EnhancedWorkoutAnalyzer.getExerciseProgress",
     "EnhancedWorkoutAnalyzer.getWorkoutConsistency",
     "EnhancedWorkoutAnalyzer.getCardioExercises",
     "EnhancedWorkoutAnalyzer.getStrengthExercises"}

\* C30: for the data parse returned in either format every operation of
\* EnhancedWorkoutAnalyzer (getPersonalRecords, getExerciseProgress,
\* getWorkoutConsistency, getCardioExercises, getStrengthExercises)
\* returns a value and raises nothing, also when an exercise has no decoded
\* sets because its logs field was absent, empty or "0".
C30_EnhancedOpsNeverRaise ==
    (parsed.kind = "return" /\ op \in EnhancedOps) => ret.kind = "return"

-----------------------------------------------------------------------------
(* Claims on the flat-table parser (SpecParse).  What each data line of    *)
(* the inputs declares: its workout number, exercise name and set order,   *)
(* whether it has as many fields as the header (kept), and whether its     *)
(* weight and reps are missing or no numbers (zero).                       *)

StrongFacts ==
    {[line |-> StrongLines.Bench1, workout |-> 1, order |-> 1, kept |-> TRUE, zero |-> FALSE,
      exercise |-> <<"B", "e", "n", "c", "h", " ", "P", "r", "e", "s", "s", " ", "(", "B", "a", "r", "b", "e", "l", "l", ")">>],
     [line |-> StrongLines.Bench2, workout |-> 1, order |-> 2, kept |-> TRUE, zero |-> FALSE,
      exercise |-> <<"B", "e", "n", "c", "h", " ", "P", "r", "e", "s", "s", " ", "(", "B", "a", "r", "b", "e", "l", "l", ")">>],
     [line |-> StrongLines.Running, workout |-> 1, order |-> 1, kept |-> TRUE, zero |-> TRUE,
      exercise |-> <<"R", "u", "n", "n", "i", "n", "g">>],
     [line |-> StrongLines.Bench3Later, workout |-> 2, order |-> 3, kept |-> TRUE, zero |-> FALSE,
      exercise |-> <<"B", "e", "n", "c", "h", " ", "P", "r", "e", "s", "s", " ", "(", "B", "a", "r", "b", "e", "l", "l", ")">>],
     [line |-> StrongLines.PullUp, workout |-> 2, order |-> 1, kept |-> TRUE, zero |-> FALSE,
      exercise |-> <<"P", "u", "l", "l", " ", "U", "p">>],
     [line |-> StrongLines.BenchNoNumbers, workout |-> 1, order |-> 3, kept |-> TRUE, zero |-> TRUE,
      exercise |-> <<"B", "e", "n", "c", "h", " ", "P", "r", "e", "s", "s", " ", "(", "B", "a", "r", "b", "e", "l", "l", ")">>],
     [line |-> StrongLines.BadDate, workout |-> 3, order |-> 1, kept |-> TRUE, zero |-> FALSE,
      exercise |-> <<"S", "q", "u", "a", "t", " ", "(", "B", "a", "r", "b", "e", "l", "l", ")">>],
     [line |-> StrongLines.Truncated, workout |-> 1, order |-> 0, kept |-> FALSE, zero |-> FALSE,
      exercise |-> <<>>]}

FactsOf(line) == CHOOSE f \in StrongFacts : f.line = line

\* parse was called on a MultiFormatWorkoutParser with a single-table text
\* of the 13-column header and data lines
FlatTableCall ==
    /\ cls = "MultiFormatWorkoutParser"
    /\ parsed # NoCall
    /\ given # <<>>
    /\ given[1] = StrongLines.Header

\* the facts of the data lines that have as many fields as the header
KeptRows ==
    LET lines == SelectSeq(Tail(given), LAMBDA line : FactsOf(line).kept)
    IN  [k \in 1..Len(lines) |-> FactsOf(lines[k])]

\* the kept rows of the workout and exercise of an emitted exercise
RowsOfExercise(exercise) ==
    {k \in 1..Len(KeptRows) :
        /\ Num(KeptRows[k].workout) = Get(exercise, K.workout_id)
        /\ Str(KeptRows[k].exercise) = Get(exercise, K.exercisename)}

\* C22: the flat-table parser emits exactly one WorkoutSession per distinct
\* workout number among the kept rows and exactly one Exercise per distinct
\* (workout number, exercise name) pair, whatever the order of the rows and
\* however rows of different workouts and exercises are interleaved; the
\* total_exercise of each session is the number of Exercises emitted for
\* its workout.
C22_OneSessionPerWorkout ==
    FlatTableCall =>
        /\ parsed.kind = "return"
        /\ Len(parsed.value.workoutSessions) =
               Cardinality({KeptRows[k].workout : k \in 1..Len(KeptRows)})
        /\ Len(parsed.value.exercises) =
               Cardinality({<<KeptRows[k].workout, KeptRows[k].exercise>> :
                               k \in 1..Len(KeptRows)})
        /\ \A i \in 1..Len(parsed.value.workoutSessions) :
               LET session == parsed.value.workoutSessions[i]
               IN  session[K.total_exercise] =
                       Num(Cardinality({j \in 1..Len(parsed.value.exercises) :
                               parsed.value.exercises[j][K.workout_id] = session[K._id]}))

\* C23: in every Exercise the flat-table parser emits the Sets are in
\* ascending order of their declared Set Order, for every order in which
\* the rows appear in the text.
C23_SetsAscendingBySetOrder ==
    (FlatTableCall /\ parsed.kind = "return") =>
        \A e \in 1..Len(parsed.value.exercises) :
            LET sets == SetsOf(parsed.value.exercises[e])
            IN  /\ Len(sets) = Cardinality(RowsOfExercise(parsed.value.exercises[e]))
                /\ \A i, j \in 1..Len(sets) :
                       i < j => sets[i].setNumber.v <= sets[j].setNumber.v

\* the rows of one exercise were written in the order 3, 2, 1 of their Set
\* Order and the parser has emitted the exercise with its three sets
C23_Witness ==
    /\ FlatTableCall
    /\ parsed.kind = "return"
    /\ Tail(given) = <<StrongLines.BenchNoNumbers, StrongLines.Bench2, StrongLines.Bench1>>
    /\ Len(parsed.value.exercises) = 1
    /\ Len(SetsOf(parsed.value.exercises[1])) = 3

\* C24: the flat-table parser loses no kept row.  Every data row with at
\* least as many fields as the header contributes exactly one Set to
\* exactly one Exercise, also when its weight or reps is missing or no
\* number, and then that value is 0; the sum of totalSets over all
\* Exercises is the number of kept rows.
C24_NoKeptRowLost ==
    FlatTableCall =>
        /\ parsed.kind = "return"
        /\ SumGaps([e \in 1..Len(parsed.value.exercises) |->
                       parsed.value.exercises[e][K.totalSets].v]) = Len(KeptRows)
        /\ \A e \in 1..Len(parsed.value.exercises) :
               Len(SetsOf(parsed.value.exercises[e])) =
                   Cardinality(RowsOfExercise(parsed.value.exercises[e]))
        /\ \A k \in 1..Len(KeptRows) :
               \E e \in 1..Len(parsed.value.exercises) :
                   /\ k \in RowsOfExercise(parsed.value.exercises[e])
                   /\ \E i \in 1..Len(SetsOf(parsed.value.exercises[e])) :
                          LET set == SetsOf(parsed.value.exercises[e])[i]
                          IN  /\ set.setNumber = Num(KeptRows[k].order)
                              /\ KeptRows[k].zero =>
                                     set.weight = Num(0) /\ set.reps = Num(0)

\* C25: in the flat-table parser a data line with fewer fields than the
\* header is skipped and the parse goes on.  The line contributes no Set,
\* Exercise or WorkoutSession, and the other lines are parsed as if the
\* short line were absent: the outcome is that of the text without it.
C25_ShortLineSkipped ==
    (FlatTableCall /\ op = "parse") =>
        \E now \in Clock :
            parsed = FreshParse(cls,
                                join(<<given[1]>> \o
                                         SelectSeq(Tail(given),
                                                   LAMBDA line : FactsOf(line).kept),
                                     "\n"),
                                now)

\* a text with a short line between two full rows has been parsed to one
\* exercise with the sets of the two rows
C25_Witness ==
    /\ FlatTableCall
    /\ parsed.kind = "return"
    /\ Tail(given) = <<StrongLines.Bench1, StrongLines.Truncated, StrongLines.Bench2>>
    /\ Len(parsed.value.exercises) = 1
    /\ Len(SetsOf(parsed.value.exercises[1])) = 2

====
